---- MODULE Spec2Model ----
(***************************************************************************)
(* A model of h5ffmpeg, the Python layer of the FFMPEG HDF5 filter:        *)
(*   - ffmpeg(), the parameter resolver           (h5ffmpeg/ffmpeg_filter) *)
(*   - the static codec tables                    (h5ffmpeg/constants)     *)
(*   - the GPU probes and validate_and_adjust_gpu_id (h5ffmpeg/gpu_utils)  *)
(*   - the patched create_dataset / __setitem__ / __getitem__ of h5py      *)
(*     that quantize 16-bit and float samples     (h5ffmpeg/patches)       *)
(*                                                                         *)
(* Python values are modelled as follows.  An optional argument is a       *)
(* sequence of length 0 (None) or 1.  A dict is a sequence of <<key,       *)
(* value>> pairs in insertion order, so that the order in which an error   *)
(* message lists the keys is part of the model.  An exception is an        *)
(* outcome record whose field "kind" names the exception class.            *)
(***************************************************************************)
EXTENDS Integers, Sequences, FiniteSets, TLC

VARIABLES
    host,   \* what the probe tools of this machine answer right now
    last,   \* the last call made through the package, with its outcome
    file    \* the HDF5 file: dataset name -> dataset (or NoDataset)

vars == <<host, last, file>>

-----------------------------------------------------------------------------
(* Python helpers *)

None == <<>>
Some(v) == <<v>>
IsNone(o) == Len(o) = 0
Val(o) == o[1]

\* `x or 0` on an optional integer: None and 0 both give 0.
OrZero(o) == IF IsNone(o) \/ Val(o) = 0 THEN 0 ELSE Val(o)

Keys(d) == [i \in 1..Len(d) |-> d[i][1]]
KeySet(d) == {d[i][1] : i \in 1..Len(d)}
HasKey(d, k) == \E i \in 1..Len(d) : d[i][1] = k
Get(d, k) == d[CHOOSE i \in 1..Len(d) : d[i][1] = k][2]
\* dict.get(k, {}) on a dict of dicts
GetOrEmpty(d, k) == IF HasKey(d, k) THEN Get(d, k) ELSE <<>>

SeqSet(s) == {s[i] : i \in 1..Len(s)}
Reverse(s) == [i \in 1..Len(s) |-> s[Len(s) + 1 - i]]

-----------------------------------------------------------------------------
(* constants.py: identifiers *)

FFMPEG_ID == 32030

EncoderCodec ==
    [MPEG4 |-> 0, XVID |-> 1, X264 |-> 2, H264_NVENC |-> 3, X265 |-> 4,
     HEVC_NVENC |-> 5, SVTAV1 |-> 6, RAV1E |-> 7, AV1_NVENC |-> 8, AV1_QSV |-> 9]

DecoderCodec ==
    [MPEG4 |-> 0, H264 |-> 1, H264_CUVID |-> 2, HEVC |-> 3, HEVC_CUVID |-> 4,
     AOMAV1 |-> 5, DAV1D |-> 6, AV1_CUVID |-> 7, AV1_QSV |-> 8]

PresetNONE == 0
TuneNONE == 0

BitMode == [BIT_8 |-> 0, BIT_10 |-> 1, BIT_12 |-> 2]

\* CODEC_TO_ENCODER with its last entry forgotten.
CODEC_TO_ENCODER_short ==
    << <<"mpeg4", 0>>, <<"libxvid", 1>>, <<"libx264", 2>>, <<"h264_nvenc", 3>>,
       <<"libx265", 4>>, <<"hevc_nvenc", 5>>, <<"libsvtav1", 6>>,
       <<"librav1e", 7>>, <<"av1_nvenc", 8>> >>

CODEC_TO_ENCODER ==
    << <<"mpeg4", EncoderCodec.MPEG4>>,
       <<"libxvid", EncoderCodec.XVID>>,
       <<"libx264", EncoderCodec.X264>>,
       <<"h264_nvenc", EncoderCodec.H264_NVENC>>,
       <<"libx265", EncoderCodec.X265>>,
       <<"hevc_nvenc", EncoderCodec.HEVC_NVENC>>,
       <<"libsvtav1", EncoderCodec.SVTAV1>>,
       <<"librav1e", EncoderCodec.RAV1E>>,
       <<"av1_nvenc", EncoderCodec.AV1_NVENC>>,
       <<"av1_qsv", EncoderCodec.AV1_QSV>> >>

CODEC_TO_DECODER ==
    << <<"mpeg4", DecoderCodec.MPEG4>>,
       <<"h264", DecoderCodec.H264>>,
       <<"h264_cuvid", DecoderCodec.H264_CUVID>>,
       <<"hevc", DecoderCodec.HEVC>>,
       <<"hevc_cuvid", DecoderCodec.HEVC_CUVID>>,
       <<"libaom-av1", DecoderCodec.AOMAV1>>,
       <<"libdav1d", DecoderCodec.DAV1D>>,
       <<"av1_cuvid", DecoderCodec.AV1_CUVID>>,
       <<"av1_qsv", DecoderCodec.AV1_QSV>> >>

X264Presets ==
    << <<"ultrafast", 10>>, <<"superfast", 11>>, <<"veryfast", 12>>,
       <<"faster", 13>>, <<"fast", 14>>, <<"medium", 15>>, <<"slow", 16>>,
       <<"slower", 17>>, <<"veryslow", 18>> >>

X265Presets ==
    << <<"ultrafast", 200>>, <<"superfast", 201>>, <<"veryfast", 202>>,
       <<"faster", 203>>, <<"fast", 204>>, <<"medium", 205>>, <<"slow", 206>>,
       <<"slower", 207>>, <<"veryslow", 208>> >>

\* The seven p1..p7 presets of an NVENC encoder, numbered from `base`.
NvencPresets(base) ==
    << <<"p1", base>>, <<"p2", base + 1>>, <<"p3", base + 2>>, <<"p4", base + 3>>,
       <<"p5", base + 4>>, <<"p6", base + 5>>, <<"p7", base + 6>> >>

SvtAv1Presets ==
    << <<"0", 400>>, <<"1", 401>>, <<"2", 402>>, <<"3", 403>>, <<"4", 404>>,
       <<"5", 405>>, <<"6", 406>>, <<"7", 407>>, <<"8", 408>>, <<"9", 409>>,
       <<"10", 410>>, <<"11", 411>>, <<"12", 412>>, <<"13", 413>> >>

Rav1ePresets ==
    << <<"0", 500>>, <<"1", 501>>, <<"2", 502>>, <<"3", 503>>, <<"4", 504>>,
       <<"5", 505>>, <<"6", 506>>, <<"7", 507>>, <<"8", 508>>, <<"9", 509>>,
       <<"10", 510>> >>

Av1QsvPresets ==
    << <<"veryfast", 700>>, <<"faster", 701>>, <<"fast", 702>>, <<"medium", 703>>,
       <<"slow", 704>>, <<"slower", 705>>, <<"veryslow", 706>> >>

PRESET_MAPPING ==
    << <<"libx264", X264Presets>>,
       <<"h264_nvenc", NvencPresets(100)>>,
       <<"libx265", X265Presets>>,
       <<"hevc_nvenc", NvencPresets(300)>>,
       <<"libsvtav1", SvtAv1Presets>>,
       <<"librav1e", Rav1ePresets>>,
       <<"av1_nvenc", NvencPresets(600)>>,
       <<"av1_qsv", Av1QsvPresets>> >>

X264Tunes ==
    << <<"psnr", 10>>, <<"ssim", 11>>, <<"grain", 12>>, <<"fastdecode", 13>>,
       <<"zerolatency", 14>>, <<"animation", 15>>, <<"film", 16>>,
       <<"stillimage", 17>> >>

X265Tunes ==
    << <<"psnr", 200>>, <<"ssim", 201>>, <<"grain", 202>>, <<"fastdecode", 203>>,
       <<"zerolatency", 204>>, <<"animation", 205>> >>

\* The four tunes of an NVENC encoder, numbered from `base`.
NvencTunes(base) ==
    << <<"hq", base>>, <<"ll", base + 1>>, <<"ull", base + 2>>,
       <<"lossless", base + 3>> >>

SvtAv1Tunes == << <<"vq", 400>>, <<"psnr", 401>>, <<"fastdecode", 402>> >>

Rav1eTunes == << <<"psnr", 500>>, <<"psychovisual", 501>> >>

Av1QsvTunes ==
    << <<"unknown", 700>>, <<"displayremoting", 701>>, <<"videoconference", 702>>,
       <<"archive", 703>>, <<"livestreaming", 704>>, <<"cameracapture", 705>>,
       <<"videosurveillance", 706>>, <<"gamestreaming", 707>>,
       <<"remotegaming", 708>> >>

TUNE_MAPPING ==
    << <<"libx264", X264Tunes>>,
       <<"h264_nvenc", NvencTunes(100)>>,
       <<"libx265", X265Tunes>>,
       <<"hevc_nvenc", NvencTunes(300)>>,
       <<"libsvtav1", SvtAv1Tunes>>,
       <<"librav1e", Rav1eTunes>>,
       <<"av1_nvenc", NvencTunes(600)>>,
       <<"av1_qsv", Av1QsvTunes>> >>

\* Keyed by encoder id.
DEFAULT_DECODER ==
    << <<EncoderCodec.MPEG4, DecoderCodec.MPEG4>>,
       <<EncoderCodec.XVID, DecoderCodec.MPEG4>>,
       <<EncoderCodec.X264, DecoderCodec.H264>>,
       <<EncoderCodec.H264_NVENC, DecoderCodec.H264>>,
       <<EncoderCodec.X265, DecoderCodec.HEVC>>,
       <<EncoderCodec.HEVC_NVENC, DecoderCodec.HEVC>>,
       <<EncoderCodec.SVTAV1, DecoderCodec.DAV1D>>,
       <<EncoderCodec.RAV1E, DecoderCodec.DAV1D>>,
       <<EncoderCodec.AV1_NVENC, DecoderCodec.DAV1D>>,
       <<EncoderCodec.AV1_QSV, DecoderCodec.DAV1D>> >>

DEFAULT_GPU_DECODER ==
    << <<EncoderCodec.H264_NVENC, DecoderCodec.H264_CUVID>>,
       <<EncoderCodec.HEVC_NVENC, DecoderCodec.HEVC_CUVID>>,
       <<EncoderCodec.AV1_NVENC, DecoderCodec.AV1_CUVID>>,
       <<EncoderCodec.AV1_QSV, DecoderCodec.AV1_QSV>> >>

-----------------------------------------------------------------------------
(* The machine: what each probe tool answers when it is run.               *)
(*   run = "ok"        the tool ran and exited 0                          *)
(*         "exit1"     the tool ran and exited non-zero                   *)
(*         "timeout"   subprocess.TimeoutExpired (a SubprocessError)       *)
(*         "notfound"  FileNotFoundError: the tool is not installed        *)
(*         "oserror"   another OSError (e.g. PermissionError) from Popen   *)
(* nvidia.gpus is the number of non-blank lines `nvidia-smi --list-gpus`   *)
(* prints; intel.marker is whether the tool's output holds the marker      *)
(* (b"VA-API version" for vainfo, b"Intel" for wmic).                      *)

MaxGpus == 2

RunOutcomes == {"ok", "exit1", "timeout", "notfound", "oserror"}

Hosts ==
    {h \in [os : {"posix", "nt", "java"},
            nvidia : [run : RunOutcomes, gpus : 0..MaxGpus],
            intel : [run : RunOutcomes, marker : BOOLEAN]] :
        /\ (h.nvidia.run # "ok" => h.nvidia.gpus = 0)
        /\ (h.intel.run # "ok" => ~h.intel.marker)}

\* subprocess.run(cmd, ..., timeout=2) inside try/except (SubprocessError,
\* FileNotFoundError): what the try block sees for a tool answering `run`.
Caught(run) == run \in {"timeout", "notfound"}
Raises(run) == run = "oserror"

\* The result of a call: kind "ok" (value returned) or the exception class;
\* probes is the sequence of probe processes the call started.
Ret(v, probes) == [kind |-> "ok", value |-> v, probes |-> probes]
Exc(kind, probes) == [kind |-> kind, value |-> 0, probes |-> probes]

\* gpu_utils.has_nvidia_gpu (ffmpeg_filter.has_nvidia_gpu is the same code)
has_nvidia_gpu(h) ==
    IF Raises(h.nvidia.run) THEN Exc("OSError", <<"nvidia-smi">>)
    ELSE IF Caught(h.nvidia.run) THEN Ret(FALSE, <<"nvidia-smi">>)
    ELSE Ret(h.nvidia.run = "ok", <<"nvidia-smi">>)

\* gpu_utils.has_intel_gpu
has_intel_gpu(h) ==
    IF h.os \in {"posix", "nt"}
    THEN LET cmd == IF h.os = "posix" THEN "vainfo" ELSE "wmic"
         IN  IF Raises(h.intel.run) THEN Exc("OSError", <<cmd>>)
             ELSE IF Caught(h.intel.run) THEN Ret(FALSE, <<cmd>>)
             ELSE Ret(h.intel.run = "ok" /\ h.intel.marker, <<cmd>>)
    ELSE Ret(FALSE, <<>>)

\* gpu_utils.detect_available_gpus: value is the dict {"nvidia": n, "intel": i}
detect_available_gpus(h) ==
    LET cmd == <<"nvidia-smi --list-gpus">>
        n == IF h.nvidia.run = "ok" THEN h.nvidia.gpus ELSE 0
        i == has_intel_gpu(h)
    IN  IF Raises(h.nvidia.run) THEN Exc("OSError", cmd)
        ELSE IF i.kind # "ok" THEN Exc(i.kind, cmd \o i.probes)
        ELSE Ret([nvidia |-> n, intel |-> IF i.value THEN 1 ELSE 0],
                 cmd \o i.probes)

\* Python's `sub in name` for the names the model uses.
NamesContaining ==
    [nvenc |-> {"h264_nvenc", "hevc_nvenc", "av1_nvenc"},
     cuvid |-> {"h264_cuvid", "hevc_cuvid", "av1_cuvid"},
     qsv |-> {"av1_qsv"}]

Contains(sub, name) == name \in NamesContaining[sub]

Min(a, b) == IF a <= b THEN a ELSE b

\* AdjustedId keeping the requested id where no NVIDIA GPU was counted.
AdjustedId_keepsAbsent(codec, requested_gpu_id, gpu_info) ==
    IF Contains("nvenc", codec) \/ Contains("cuvid", codec)
    THEN IF gpu_info.nvidia = 0 THEN requested_gpu_id
         ELSE Min(requested_gpu_id, gpu_info.nvidia - 1)
    ELSE IF Contains("qsv", codec)
    THEN IF gpu_info.intel = 0 THEN -1 ELSE 0
    ELSE requested_gpu_id

\* AdjustedId clamping to the count, not to the last index.
AdjustedId_offbyone(codec, requested_gpu_id, gpu_info) ==
    IF Contains("nvenc", codec) \/ Contains("cuvid", codec)
    THEN IF gpu_info.nvidia = 0 THEN -1
         ELSE Min(requested_gpu_id, gpu_info.nvidia)
    ELSE IF Contains("qsv", codec)
    THEN IF gpu_info.intel = 0 THEN -1 ELSE 0
    ELSE requested_gpu_id

\* validate_and_adjust_gpu_id, lines 108-126: the id to use for `codec`
\* given the probed counts, for a request of a GPU (requested_gpu_id >= 0).
AdjustedId(codec, requested_gpu_id, gpu_info) ==
    IF Contains("nvenc", codec) \/ Contains("cuvid", codec)
    THEN IF gpu_info.nvidia = 0 THEN -1
         ELSE IF requested_gpu_id >= gpu_info.nvidia
              THEN Min(requested_gpu_id, gpu_info.nvidia - 1)
              ELSE requested_gpu_id
    ELSE IF Contains("qsv", codec)
    THEN IF gpu_info.intel = 0 THEN -1 ELSE 0
    ELSE requested_gpu_id

\* gpu_utils.validate_and_adjust_gpu_id.  The record returned carries, beside
\* the value, the gpu_info dict the call worked from (None when it never
\* probed).
validate_and_adjust_gpu_id(codec, requested_gpu_id, h) ==
    IF requested_gpu_id < 0
    THEN Ret(-1, <<>>) @@ [gpu_info |-> None]
    ELSE
      LET d == detect_available_gpus(h) IN
      IF d.kind # "ok" THEN d @@ [gpu_info |-> None]
      ELSE Ret(AdjustedId(codec, requested_gpu_id, d.value), d.probes)
               @@ [gpu_info |-> Some(d.value)]

-----------------------------------------------------------------------------
(* ffmpeg_filter.ffmpeg: the parameter resolver *)

\* The dict ffmpeg() returns: compression_opts is the eleven-field tuple.
Resolved(opts, probes) ==
    [kind |-> "ok", what |-> "", listed |-> <<>>, opts |-> opts, probes |-> probes]

\* raise ValueError(...): `what` is the argument refused and `listed` the
\* names the message enumerates (", ".join of the dict's keys).
ValueError(what, listed) ==
    [kind |-> "ValueError", what |-> what, listed |-> listed, opts |-> <<>>,
     probes |-> <<>>]

\* An exception a probe let through.
ProbeError(kind, probes) ==
    [kind |-> kind, what |-> "probe", listed |-> <<>>, opts |-> <<>>,
     probes |-> probes]

\* SelectDecoder taking GPU 0 for "no GPU".
SelectDecoder_strict(enc_id, decoder, gpu_id) ==
    IF IsNone(decoder)
    THEN IF gpu_id > 0 /\ HasKey(DEFAULT_GPU_DECODER, enc_id)
         THEN Get(DEFAULT_GPU_DECODER, enc_id)
         ELSE Get(DEFAULT_DECODER, enc_id)
    ELSE Get(CODEC_TO_DECODER, Val(decoder))

\* ffmpeg(), lines 554-565: decoder selection (after the encoder lookup).
SelectDecoder(enc_id, decoder, gpu_id) ==
    IF IsNone(decoder)
    THEN IF gpu_id >= 0 /\ HasKey(DEFAULT_GPU_DECODER, enc_id)
         THEN Get(DEFAULT_GPU_DECODER, enc_id)
         ELSE Get(DEFAULT_DECODER, enc_id)
    ELSE Get(CODEC_TO_DECODER, Val(decoder))

\* ffmpeg(), lines 567-583: a preset or tune name looked up in the codec's
\* own sub-dict of `mapping`; found iff the codec has one that holds the name.
NameKnown(mapping, codec, name) ==
    HasKey(mapping, codec) /\ HasKey(Get(mapping, codec), name)

\* The valid names taken from every codec's sub-dict, not the given codec's.
ValidNames_all(mapping, codec) ==
    IF Len(mapping) < 2 THEN <<>>
    ELSE Keys(mapping[1][2]) \o Keys(mapping[2][2])

ValidNames(mapping, codec) == Keys(GetOrEmpty(mapping, codec))

\* HardwareChecks without the gpu_id >= 0 guard.
HardwareChecks_always(codec, gpu_id, h) ==
    LET nv == IF Contains("nvenc", codec) THEN has_nvidia_gpu(h)
              ELSE Ret(TRUE, <<>>)
        qs == IF Contains("qsv", codec) THEN has_intel_gpu(h)
              ELSE Ret(TRUE, <<>>)
    IN  IF nv.kind # "ok" THEN nv
        ELSE IF qs.kind # "ok" THEN Exc(qs.kind, nv.probes \o qs.probes)
        ELSE Ret(TRUE, nv.probes \o qs.probes)

\* ffmpeg(), lines 585-593: the hardware checks, which only log.  The value
\* is the sequence of probes started, or the exception a probe raised.
HardwareChecks(codec, gpu_id, h) ==
    IF gpu_id < 0 THEN Ret(TRUE, <<>>)
    ELSE
      LET nv == IF Contains("nvenc", codec) THEN has_nvidia_gpu(h)
                ELSE Ret(TRUE, <<>>)
          qs == IF Contains("qsv", codec) THEN has_intel_gpu(h)
                ELSE Ret(TRUE, <<>>)
      IN  IF nv.kind # "ok" THEN nv
          ELSE IF qs.kind # "ok" THEN Exc(qs.kind, nv.probes \o qs.probes)
          ELSE Ret(TRUE, nv.probes \o qs.probes)

\* PackOptions in the order of FFMPEG.__init__'s arguments (depth first).
PackOptions_swapped(enc_id, dec_id, req, preset_id, tune_id) ==
    <<enc_id, dec_id, OrZero(req.depth), OrZero(req.height), OrZero(req.width),
      req.bit_mode, preset_id, tune_id, OrZero(req.crf), req.film_grain,
      req.gpu_id>>

\* ffmpeg(), lines 595-597: the tuple packed into compression_opts.
PackOptions(enc_id, dec_id, req, preset_id, tune_id) ==
    <<enc_id, dec_id, OrZero(req.width), OrZero(req.height), OrZero(req.depth),
      req.bit_mode, preset_id, tune_id, OrZero(req.crf), req.film_grain,
      req.gpu_id>>

\* ffmpeg() with the hardware checks moved before the validation of the
\* names.
ffmpeg_probesFirst(req, h) ==
    LET hw == HardwareChecks(req.codec, req.gpu_id, h)
        Refused(what, listed) == [ValueError(what, listed) EXCEPT !.probes = hw.probes]
    IN
    IF hw.kind # "ok" THEN ProbeError(hw.kind, hw.probes)
    ELSE IF ~HasKey(CODEC_TO_ENCODER, req.codec)
    THEN Refused("codec", Keys(CODEC_TO_ENCODER))
    ELSE IF ~IsNone(req.decoder) /\ ~HasKey(CODEC_TO_DECODER, Val(req.decoder))
    THEN Refused("decoder", Keys(CODEC_TO_DECODER))
    ELSE IF ~IsNone(req.preset) /\ ~NameKnown(PRESET_MAPPING, req.codec, Val(req.preset))
    THEN Refused("preset", ValidNames(PRESET_MAPPING, req.codec))
    ELSE IF ~IsNone(req.tune) /\ ~NameKnown(TUNE_MAPPING, req.codec, Val(req.tune))
    THEN Refused("tune", ValidNames(TUNE_MAPPING, req.codec))
    ELSE
      LET enc_id == Get(CODEC_TO_ENCODER, req.codec)
          dec_id == SelectDecoder(enc_id, req.decoder, req.gpu_id)
          preset_id == IF IsNone(req.preset) THEN PresetNONE
                       ELSE Get(Get(PRESET_MAPPING, req.codec), Val(req.preset))
          tune_id == IF IsNone(req.tune) THEN TuneNONE
                     ELSE Get(Get(TUNE_MAPPING, req.codec), Val(req.tune))
      IN  Resolved(PackOptions(enc_id, dec_id, req, preset_id, tune_id), hw.probes)

ffmpeg(req, h) ==
    IF ~HasKey(CODEC_TO_ENCODER, req.codec)
    THEN ValueError("codec", Keys(CODEC_TO_ENCODER))
    ELSE
      LET enc_id == Get(CODEC_TO_ENCODER, req.codec) IN
      IF ~IsNone(req.decoder) /\ ~HasKey(CODEC_TO_DECODER, Val(req.decoder))
      THEN ValueError("decoder", Keys(CODEC_TO_DECODER))
      ELSE
        LET dec_id == SelectDecoder(enc_id, req.decoder, req.gpu_id) IN
        IF ~IsNone(req.preset) /\ ~NameKnown(PRESET_MAPPING, req.codec, Val(req.preset))
        THEN ValueError("preset", ValidNames(PRESET_MAPPING, req.codec))
        ELSE
          LET preset_id == IF IsNone(req.preset) THEN PresetNONE
                           ELSE Get(Get(PRESET_MAPPING, req.codec), Val(req.preset))
          IN
          IF ~IsNone(req.tune) /\ ~NameKnown(TUNE_MAPPING, req.codec, Val(req.tune))
          THEN ValueError("tune", ValidNames(TUNE_MAPPING, req.codec))
          ELSE
            LET tune_id == IF IsNone(req.tune) THEN TuneNONE
                           ELSE Get(Get(TUNE_MAPPING, req.codec), Val(req.tune))
                hw == HardwareChecks(req.codec, req.gpu_id, h)
            IN  IF hw.kind # "ok" THEN ProbeError(hw.kind, hw.probes)
                ELSE Resolved(PackOptions(enc_id, dec_id, req, preset_id, tune_id),
                              hw.probes)

-----------------------------------------------------------------------------
(* The calls the model makes *)

MaxGpuId == 5

\* Every name a sub-dict of `mapping` holds.
AllNames(mapping) == UNION {KeySet(mapping[i][2]) : i \in 1..Len(mapping)}

Opt(S) == {None} \cup {Some(v) : v \in S}

EncoderNames == KeySet(CODEC_TO_ENCODER)
DecoderNames == KeySet(CODEC_TO_DECODER)
CodecUniverse == EncoderNames \cup {"bogus", "h264"}
PresetUniverse == AllNames(PRESET_MAPPING) \cup {"bogus", ""}
TuneUniverse == AllNames(TUNE_MAPPING) \cup {"bogus", ""}
DecoderUniverse == DecoderNames \cup {"bogus", "libx264"}
GpuIds == (-1)..MaxGpuId

\* ffmpeg()'s defaults (its signature, lines 510-511)
DefaultRequest ==
    [codec |-> "libx264", decoder |-> None, preset |-> None, tune |-> None,
     crf |-> None, bit_mode |-> BitMode.BIT_8, film_grain |-> 0, gpu_id |-> 0,
     width |-> None, height |-> None, depth |-> None]

PresetRequests ==
    {[DefaultRequest EXCEPT !.codec = c, !.preset = p, !.tune = t] :
        c \in CodecUniverse, p \in Opt(PresetUniverse),
        t \in {None, Some("bogus")}}

TuneRequests ==
    {[DefaultRequest EXCEPT !.codec = c, !.tune = t, !.decoder = d] :
        c \in CodecUniverse, t \in Opt(TuneUniverse),
        d \in {None, Some("bogus")}}

DecoderRequests ==
    {[DefaultRequest EXCEPT !.codec = c, !.decoder = d, !.gpu_id = g] :
        c \in CodecUniverse, d \in Opt(DecoderUniverse), g \in GpuIds}

DimensionRequests ==
    {[DefaultRequest EXCEPT !.preset = Some("medium"), !.width = w, !.height = hh,
                            !.depth = d, !.crf = q, !.bit_mode = b] :
        w \in Opt({0, 256}), hh \in Opt({0, 256}), d \in Opt({0, 100}),
        q \in Opt({0, 23}), b \in {BitMode.BIT_8, BitMode.BIT_10, BitMode.BIT_12}}

HardwareRequests ==
    {[DefaultRequest EXCEPT !.codec = c, !.preset = p, !.gpu_id = g,
                            !.film_grain = f] :
        c \in EncoderNames, p \in {None, Some("p4"), Some("bogus")},
        g \in GpuIds, f \in {0, 10}}

Requests ==
    PresetRequests \cup TuneRequests \cup DecoderRequests
        \cup DimensionRequests \cup HardwareRequests

\* The codec names validate_and_adjust_gpu_id is called with: encoder names
\* on the write path, decoder names on the read path, and an unknown one.
ValidateNames == EncoderNames \cup DecoderNames \cup {"bogus"}

NoDataset == [exists |-> FALSE]

DatasetNames == {"a", "b"}

EmptyFile == [n \in DatasetNames |-> NoDataset]

Init ==
    /\ host \in Hosts
    /\ last = [op |-> "none"]
    /\ file = EmptyFile

\* No call is in progress: the previous result, if any, was consumed.
Idle == last.op \in {"none", "host"}

\* A call of h5ffmpeg.ffmpeg(**req)
Resolve ==
    /\ Idle
    /\ \E req \in Requests :
        /\ last' = [op |-> "ffmpeg", req |-> req, out |-> ffmpeg(req, host)]
        /\ UNCHANGED <<host, file>>

\* A call of validate_and_adjust_gpu_id(codec, requested_gpu_id)
Validate ==
    /\ Idle
    /\ \E codec \in ValidateNames, g \in GpuIds :
        /\ last' = [op |-> "validate", codec |-> codec, requested |-> g,
                    out |-> validate_and_adjust_gpu_id(codec, g, host)]
        /\ UNCHANGED <<host, file>>

\* The caller takes the result of the last call.
Return ==
    /\ ~Idle
    /\ last' = [op |-> "none"]
    /\ UNCHANGED <<host, file>>

\* Between calls the machine changes: a GPU is added or removed, a tool is
\* installed or starts failing.
HostChange ==
    /\ Idle
    /\ \E h \in Hosts :
        /\ h # host
        /\ host' = h
        /\ last' = [op |-> "host"]
        /\ UNCHANGED file

Next == Resolve \/ Validate \/ Return \/ HostChange

Spec == Init /\ [][Next]_vars

\* The calls of validate_and_adjust_gpu_id made by one process, one after
\* the other.  `last` keeps, beside the last call and its result, what the
\* process did so far: the number of calls, the number of probe processes
\* started for each vendor, and the counts the first probing call obtained.
MaxCalls == 2

ProcessValidate ==
    /\ last.op \in {"none", "process"}
    /\ LET so_far == IF last.op = "process" THEN last.so_far
                     ELSE [calls |-> 0, spawned |-> [nvidia |-> 0, intel |-> 0],
                           first |-> None]
       IN
       /\ so_far.calls < MaxCalls
       /\ \E codec \in {"h264_nvenc", "av1_qsv", "libx264"}, g \in {0, MaxGpuId} :
           LET out == validate_and_adjust_gpu_id(codec, g, host)
               started(cmds) == Cardinality({i \in DOMAIN out.probes : out.probes[i] \in cmds})
           IN  last' = [op |-> "process", codec |-> codec, requested |-> g, out |-> out,
                        so_far |->
                          [calls |-> so_far.calls + 1,
                           spawned |->
                             [nvidia |-> so_far.spawned.nvidia
                                           + started({"nvidia-smi --list-gpus"}),
                              intel |-> so_far.spawned.intel
                                           + started({"vainfo", "wmic"})],
                           first |-> IF IsNone(so_far.first) THEN out.gpu_info
                                     ELSE so_far.first]]
    /\ UNCHANGED <<host, file>>

\* The machine changes while the process runs: the NVIDIA driver and GPUs, or
\* the Intel one.
ProcessHostChange ==
    /\ last.op = "process"
    /\ \E h \in Hosts :
        /\ h # host
        /\ h.os = host.os
        /\ h.nvidia = host.nvidia \/ h.intel = host.intel
        /\ host' = h
    /\ UNCHANGED <<last, file>>

NextProcess == ProcessValidate \/ ProcessHostChange

SpecProcess == Init /\ [][NextProcess]_vars

-----------------------------------------------------------------------------
(* patches.py: numbers.                                                    *)
(*                                                                         *)
(* A sample value is an exact fraction <<n, d>> in lowest terms (d > 0);   *)
(* an integer sample has d = 1.  numpy's float32 arithmetic is modelled as *)
(* exact arithmetic on fractions, except the square root, which is rounded *)
(* down to a multiple of 1/RootScale(v).  The exponents the model uses are *)
(* 1/2, 1 and 2.  A beta is [p, q, eps], standing for the Python float     *)
(* p/q - eps*np.finfo(float).eps: the eps is lost when numpy computes a    *)
(* float32 power, but `beta != 1.0` (a float64 comparison) sees it.        *)

RECURSIVE GCD(_, _)
GCD(a, b) == IF b = 0 THEN a ELSE GCD(b, a % b)


Frac(n, d) ==
    LET g == GCD(IF n < 0 THEN -n ELSE n, IF d < 0 THEN -d ELSE d)
        sg == IF d < 0 THEN -1 ELSE 1
    IN  <<sg * (n \div g), sg * (d \div g)>>

\* nan is the pair <<0, 0>>, +inf <<1, 0>> and -inf <<-1, 0>>: what a division by a
\* zero range gives.  nan propagates through the arithmetic and compares
\* false; the transforms never compute with the infinities.
NaN == <<0, 0>>
PosInf == <<1, 0>>
NegInf == <<-1, 0>>
IsNan(v) == v = NaN
IsFinite(v) == v[2] # 0

Whole(n) == <<n, 1>>
FAdd(x, y) ==
    IF IsNan(x) \/ IsNan(y) THEN NaN
    ELSE Frac(x[1] * y[2] + y[1] * x[2], x[2] * y[2])
FSub(x, y) ==
    IF IsNan(x) \/ IsNan(y) THEN NaN
    ELSE Frac(x[1] * y[2] - y[1] * x[2], x[2] * y[2])
FMul(x, y) ==
    IF IsNan(x) \/ IsNan(y) THEN NaN ELSE
    LET g1 == GCD(IF x[1] < 0 THEN -x[1] ELSE x[1], y[2])
        g2 == GCD(IF y[1] < 0 THEN -y[1] ELSE y[1], x[2])
    IN  <<(x[1] \div g1) * (y[1] \div g2), (x[2] \div g2) * (y[2] \div g1)>>
\* x / y for y # 0
FDiv(x, y) == FMul(x, IF y[1] < 0 THEN <<-y[2], -y[1]>> ELSE <<y[2], y[1]>>)
FLeq(x, y) == ~IsNan(x) /\ ~IsNan(y) /\ x[1] * y[2] <= y[1] * x[2]
\* C's float-to-integer conversion rounds toward zero.
FTrunc(x) == IF x[1] >= 0 THEN x[1] \div x[2] ELSE -((-x[1]) \div x[2])
\* np.clip(x, lo, hi) = minimum(maximum(x, lo), hi)
FClip(x, lo, hi) ==
    LET raised == IF FLeq(x, lo) THEN lo ELSE x
    IN  IF IsNan(x) \/ IsNan(lo) \/ IsNan(hi) THEN NaN
        ELSE IF FLeq(raised, hi) THEN raised ELSE hi

\* floor(sqrt(n)) for n >= 0, by bisection on lo <= root < hi
RECURSIVE ISqrtIn(_, _, _)
ISqrtIn(n, lo, hi) ==
    IF hi - lo <= 1 THEN lo
    ELSE LET mid == (lo + hi) \div 2
         IN  IF mid * mid <= n THEN ISqrtIn(n, mid, hi) ELSE ISqrtIn(n, lo, mid)

\* 46341^2 exceeds the largest integer of the model.
ISqrt(n) == ISqrtIn(n, 0, Min(n, 46340) + 1)

\* The denominator a square root of v is rounded to: the finest that keeps
\* the computation within the integers of the model.
RootScale(v) ==
    IF v[1] <= 127 THEN 4096 ELSE IF v[1] <= 32767 THEN 256
    ELSE IF v[1] <= 8388607 THEN 16 ELSE 1

\* sqrt(v) for v >= 0, rounded down to a multiple of 1/RootScale(v); exact
\* where v is the square of such a multiple.
FSqrt(v) ==
    LET s == RootScale(v)
    IN  Frac(ISqrt((v[1] * s * s) \div v[2]), s)

Beta(p, q, eps) == [p |-> p, q |-> q, eps |-> eps]
BetaOne == Beta(1, 1, FALSE)
\* beta != 1.0
BetaIsNotOne(beta) == ~(beta.p = beta.q /\ ~beta.eps)

\* np.power(v, e) in float32, e = p/q one of 1/2, 1, 2.  A negative base
\* with a fractional exponent gives nan.
Power(v, p, q) ==
    IF ~IsFinite(v) THEN v
    ELSE IF p = q THEN v
    ELSE IF p = 2 * q THEN FMul(v, v)
    ELSE IF v[1] < 0 THEN NaN
    ELSE FSqrt(v)

\* ndarray.astype(uintN) of a float32 value.  A value in range is truncated.
\* Converting a value out of range, or nan, is undefined behaviour in C: the
\* outcomes are those of the common builds, wrapping modulo 2^N (x86) and
\* saturating (ARM); nan gives 0.
AsUnsigned(v, bits) ==
    LET top == 2 ^ bits
    IN  IF IsNan(v) THEN {0}
        ELSE IF v = PosInf THEN {0, top - 1}
        ELSE IF v = NegInf THEN {0}
        ELSE LET t == FTrunc(v)
             IN  IF 0 <= t /\ t < top THEN {t}
                 ELSE {t % top, IF t < 0 THEN 0 ELSE top - 1}

-----------------------------------------------------------------------------
(* The Array Store: h5py's own Group.create_dataset, Dataset.__setitem__   *)
(* and Dataset.__getitem__, which patches.py saves and calls.  An array is *)
(* [dtype, shape, samples]: samples holds the values of the array (the     *)
(* transforms are element-wise), whatever its shape.  The codec is the     *)
(* identity: what is written is what is read.                              *)

SupportedDTypes == {"uint8", "uint16", "float32"}

ItemBits(dtype) == IF dtype = "uint8" THEN 8 ELSE IF dtype = "uint16" THEN 16 ELSE 32

Array(dtype, shape, samples) == [dtype |-> dtype, shape |-> shape, samples |-> samples]

NoAttrs ==
    [bit |-> None, norm |-> None, beta |-> None, init_max_intensity |-> None,
     init_min_intensity |-> None, data_type |-> None]

\* HDF5's conversion of a value to the dataset's type: truncated, and clamped
\* to the type's range; a float dataset keeps the value.
H5Convert(v, dtype) ==
    IF dtype \in {"uint8", "uint16"}
    THEN IF ~IsFinite(v) THEN Whole(0)
         ELSE LET t == Min(FTrunc(v), 2 ^ ItemBits(dtype) - 1)
              IN  Whole(IF t >= 0 THEN t ELSE 0)
    ELSE v

\* What h5py's create_dataset is called with (positional name, shape, dtype,
\* data and the keywords chunks and compression_opts).
Handed(name, shape, dtype, data, chunks, opts) ==
    [name |-> name, shape |-> shape, dtype |-> dtype, data |-> data,
     chunks |-> chunks, opts |-> opts]

NoHanded == Handed("", None, None, None, None, <<>>)

\* The shape h5py gives the dataset: `shape`, else the data's.
H5Shape(shape, data) == IF ~IsNone(shape) THEN Val(shape) ELSE Val(data).shape

\* h5py refuses a name in use, a call with neither shape nor data, and chunks
\* whose rank is not the dataset's or that exceed it.
H5CreateError(f, hd) ==
    IF f[hd.name].exists THEN "ValueError"
    ELSE IF IsNone(hd.shape) /\ IsNone(hd.data) THEN "TypeError"
    ELSE LET sh == H5Shape(hd.shape, hd.data)
         IN  IF /\ ~IsNone(hd.chunks)
                /\ \/ Len(Val(hd.chunks)) # Len(sh)
                   \/ \E i \in 1..Len(sh) : Val(hd.chunks)[i] > sh[i]
             THEN "ValueError"
             ELSE "ok"

SampleCount == 3

\* The dataset h5py creates: its type is `dtype`, else the data's, else float32;
\* it holds the data converted to that type, or zeros.  `source` is not in the
\* file: it is the array the caller wrote last, kept for the properties.
H5NewDataset(hd) ==
    LET dt == IF ~IsNone(hd.dtype) THEN Val(hd.dtype)
              ELSE IF ~IsNone(hd.data) THEN Val(hd.data).dtype ELSE "float32"
        conv(v) == H5Convert(v, dt)
    IN  [exists |-> TRUE,
         dtype |-> dt,
         shape |-> H5Shape(hd.shape, hd.data),
         chunks |-> hd.chunks,
         opts |-> hd.opts,
         attrs |-> NoAttrs,
         source |-> None,
         values |-> IF IsNone(hd.data) THEN [i \in 1..SampleCount |-> Whole(0)]
                    ELSE [i \in DOMAIN Val(hd.data).samples |-> conv(Val(hd.data).samples[i])]]

\* A write that also clears the attributes of the dataset
H5Write_dropsAttrs(ds, samples) ==
    LET conv(v) == H5Convert(v, ds.dtype)
    IN  [ds EXCEPT !.values = [i \in DOMAIN samples |-> conv(samples[i])],
                   !.attrs = NoAttrs]

\* Dataset.__setitem__(slice(None), value) of h5py
H5Write(ds, samples) ==
    LET conv(v) == H5Convert(v, ds.dtype)
    IN  [ds EXCEPT !.values = [i \in DOMAIN samples |-> conv(samples[i])]]

\* Dataset.__getitem__(slice(None)) of h5py
H5Read(ds) == Array(ds.dtype, ds.shape, ds.values)

-----------------------------------------------------------------------------
(* patches.py: the create_dataset, __setitem__ and __getitem__ that replace *)
(* h5py's.  Each is the set of outcomes of one call, more than one where a  *)
(* float is cast to an integer type that cannot hold it.  Shapes are small  *)
(* enough that a whole array is below MAX_CHUNK_SIZE (4 GiB), so that the   *)
(* automatic chunk shape is the array's shape (line 138).                   *)

ChunkSpec(kind, dims) == [kind |-> kind, dims |-> dims]
ChunksNone == ChunkSpec("None", <<>>)
ChunksTuple(dims) == ChunkSpec("tuple", dims)

\* {0: 8, 1: 10, 2: 12}.get(compression_opts[5] if len(compression_opts) > 5 else 0, 8)
BitOf(compression_opts) ==
    LET mode == IF Len(compression_opts) > 5 THEN compression_opts[6] ELSE 0
    IN  IF mode = 1 THEN 10 ELSE IF mode = 2 THEN 12 ELSE 8

\* (1 << bit) - 1
MaxBitVal(bit) == 2 ^ bit - 1

\* comp_opts[2:5] = chunks[::-1]: the slice is replaced by the whole reversed
\* tuple, whatever its length.
SetDimensions(comp_opts, chunks) ==
    SubSeq(comp_opts, 1, Min(2, Len(comp_opts)))
        \o Reverse(chunks)
        \o SubSeq(comp_opts, 6, Len(comp_opts))

\* np.amax, np.amin: nan where a sample is nan
AMax(samples) ==
    IF \E i \in 1..Len(samples) : IsNan(samples[i]) THEN NaN ELSE
    samples[CHOOSE i \in 1..Len(samples) :
                \A j \in 1..Len(samples) : FLeq(samples[j], samples[i])]
AMin(samples) ==
    IF \E i \in 1..Len(samples) : IsNan(samples[i]) THEN NaN ELSE
    samples[CHOOSE i \in 1..Len(samples) :
                \A j \in 1..Len(samples) : FLeq(samples[i], samples[j])]

\* math.log(max_bit_val, range) - np.finfo(float).eps.  log raises for a base
\* of 0 (math domain error) and of 1 (division by log(1) = 0).  The result is
\* rational for the ranges max_bit_val and max_bit_val^2 only, and the calls
\* of the model have one of these.
LogBeta(max_bit_val, range) ==
    IF FLeq(range, Whole(0)) THEN [kind |-> "ValueError", beta |-> BetaOne]
    ELSE IF range = Whole(1) THEN [kind |-> "ZeroDivisionError", beta |-> BetaOne]
    ELSE IF range = Whole(max_bit_val) THEN [kind |-> "ok", beta |-> Beta(1, 1, TRUE)]
    ELSE IF range = Whole(max_bit_val * max_bit_val)
         THEN [kind |-> "ok", beta |-> Beta(1, 2, TRUE)]
    ELSE [kind |-> "irrational", beta |-> BetaOne]

\* One sample through lines 163-184.  The normalized value is scaled by
\* max_bit_val before the power is taken.
CreateForward(x, data_dtype, norm, beta, max_bit_val, init_min, init_max) ==
    LET lo == IF data_dtype = "uint16" THEN Whole(0) ELSE init_min
        range == FSub(init_max, lo)
    IN  IF data_dtype = "uint8" THEN x
        ELSE IF norm
        THEN IF range = Whole(0) THEN NaN
             ELSE Power(FMul(FDiv(FSub(x, lo), range), Whole(max_bit_val)),
                        beta.p, beta.q)
        ELSE Power(FSub(x, lo), beta.p, beta.q)

\* ndarray.astype(uintN): every combination of the samples' outcomes
RECURSIVE CastAll(_, _)
CastAll(samples, bits) ==
    IF samples = <<>> THEN {<<>>}
    ELSE {<<Whole(h)>> \o t : h \in AsUnsigned(Head(samples), bits),
                              t \in CastAll(Tail(samples), bits)}

CreateOutcome(kind, f, handed) == [kind |-> kind, file |-> f, handed |-> handed]

CreateArgs(name, shape, dtype, data, compression, compression_opts, chunks, norm, beta) ==
    [name |-> name, shape |-> shape, dtype |-> dtype, data |-> data,
     compression |-> compression, compression_opts |-> compression_opts,
     chunks |-> chunks, norm |-> norm, beta |-> beta]

\* Lines 194-210: the dataset is created, then its attributes are set one by
\* one.  data_dtype is bound only where data was given (line 162).
CreateAndDescribe(f, hd, use_quant, norm, bit, beta, init_max, init_min, data_dtype) ==
    LET err == H5CreateError(f, hd)
        dset == H5NewDataset(hd)
        attrs1 ==
            [NoAttrs EXCEPT
                !.norm = IF norm THEN Some(TRUE) ELSE None,
                !.bit = Some(bit),
                !.beta = IF BetaIsNotOne(beta) THEN Some(beta) ELSE None,
                !.init_max_intensity =
                    IF ~IsNone(init_max) THEN init_max ELSE Some(Whole(MaxBitVal(bit))),
                !.init_min_intensity =
                    IF ~IsNone(init_min) THEN init_min ELSE Some(Whole(0))]
        code == IF data_dtype = Some("uint16") THEN 1
                ELSE IF data_dtype = Some("float32") THEN 2 ELSE 0
    IN  IF err # "ok" THEN CreateOutcome(err, f, hd)
        ELSE IF ~use_quant
        THEN CreateOutcome("ok", [f EXCEPT ![hd.name] = dset], hd)
        ELSE IF IsNone(data_dtype)
        THEN CreateOutcome("UnboundLocalError",
                           [f EXCEPT ![hd.name] = [dset EXCEPT !.attrs = attrs1]], hd)
        ELSE CreateOutcome("ok",
                 [f EXCEPT ![hd.name] =
                     [dset EXCEPT !.attrs = [attrs1 EXCEPT !.data_type = Some(code)]]],
                 hd)

\* _patched_create_dataset(self, name, shape, dtype, data, **kwargs)
patched_create_dataset(f, a) ==
    LET passed == Handed(a.name, a.shape, a.dtype, a.data,
                         IF a.chunks.kind = "tuple" THEN Some(a.chunks.dims) ELSE None,
                         a.compression_opts)
        hasData == ~IsNone(a.data)
        data_dtype == IF hasData THEN Some(Val(a.data).dtype) ELSE None
        \* lines 113-120
        dataOk == hasData => Val(a.data).dtype \in SupportedDTypes
        reset == hasData /\ Val(a.data).dtype = "uint8" /\ Len(a.compression_opts) > 5
        compression_opts ==
            IF reset THEN [a.compression_opts EXCEPT ![6] = 0] ELSE a.compression_opts
        bit == IF reset THEN 8 ELSE BitOf(a.compression_opts)
        \* lines 122-124
        dtypeOk == ~IsNone(a.dtype) => Val(a.dtype) \in {"uint8", "uint16"}
        use_quant == IF ~IsNone(a.dtype) THEN Val(a.dtype) # "uint8"
                     ELSE hasData /\ Val(a.data).dtype # "uint8"
        \* lines 126-149
        final_shape == IF ~IsNone(a.shape) THEN a.shape
                       ELSE IF hasData THEN Some(Val(a.data).shape) ELSE None
        automatic == a.chunks.kind \in {"None", "True"}
        chunks == IF automatic THEN Val(final_shape) ELSE a.chunks.dims
        \* lines 161-184
        transform == use_quant /\ hasData
        samples == Val(a.data).samples
        init_max == IF transform /\ Val(data_dtype) # "uint8"
                    THEN Some(AMax(samples)) ELSE None
        init_min == IF transform /\ Val(data_dtype) = "float32"
                    THEN Some(AMin(samples)) ELSE None
        range == FSub(Val(init_max), IF IsNone(init_min) THEN Whole(0) ELSE Val(init_min))
        derived == transform /\ Val(data_dtype) # "uint8" /\ ~a.norm
        log == IF derived THEN LogBeta(MaxBitVal(bit), range)
               ELSE [kind |-> "ok", beta |-> a.beta]
        forward(x) == CreateForward(x, Val(data_dtype), a.norm, log.beta, MaxBitVal(bit),
                                    IF IsNone(init_min) THEN Whole(0) ELSE Val(init_min),
                                    Val(init_max))
        \* lines 186-191
        stored == IF bit = 8 THEN "uint8" ELSE "uint16"
        quantized == CastAll([i \in DOMAIN samples |-> forward(samples[i])], ItemBits(stored))
        hd(dtype, data) ==
            Handed(a.name, a.shape, dtype, data, Some(chunks),
                   SetDimensions(compression_opts, chunks))
    IN  IF a.compression # FFMPEG_ID
        THEN LET err == H5CreateError(f, passed)
             IN  IF err # "ok" THEN {CreateOutcome(err, f, passed)}
                 ELSE {CreateOutcome("ok", [f EXCEPT ![a.name] = H5NewDataset(passed)],
                                     passed)}
        ELSE IF ~dataOk \/ ~dtypeOk THEN {CreateOutcome("AssertionError", f, NoHanded)}
        ELSE IF automatic /\ IsNone(final_shape)
        THEN {CreateOutcome("RuntimeError", f, NoHanded)}
        ELSE IF ~automatic /\ a.chunks.kind # "tuple"
        THEN {CreateOutcome("ValueError", f, NoHanded)}
        ELSE IF log.kind # "ok" THEN {CreateOutcome(log.kind, f, NoHanded)}
        ELSE IF transform
        THEN {CreateAndDescribe(f, hd(Some(stored), Some(Array(stored, Val(a.data).shape, q))),
                                TRUE, a.norm, bit, log.beta, init_max, init_min, data_dtype) :
                 q \in quantized}
        ELSE {CreateAndDescribe(f, hd(a.dtype, a.data), use_quant, a.norm, bit, a.beta,
                                None, None, data_dtype)}

SetOutcome(kind, f, written) == [kind |-> kind, file |-> f, written |-> written]

\* One sample through lines 81-92
SetForward(x, norm, beta, max_bitType_val, min_val, max_val) ==
    LET range == FSub(max_val, min_val)
        shifted == FSub(x, min_val)
    IN  IF norm
        THEN IF range = Whole(0)
             THEN IF shifted = Whole(0) THEN NaN
                  ELSE IF shifted[1] > 0 THEN PosInf
                  ELSE IF beta.p = 2 * beta.q THEN PosInf
                  ELSE IF beta.p = beta.q THEN NegInf ELSE NaN
             ELSE FMul(IF BetaIsNotOne(beta)
                       THEN Power(FDiv(shifted, range), beta.p, beta.q)
                       ELSE FDiv(shifted, range),
                       Whole(max_bitType_val))
        ELSE LET raised == Power(shifted, beta.p, beta.q)
             IN  IF IsNan(raised) THEN NaN
                 ELSE FClip(raised, Whole(0), Whole(max_bitType_val))

\* _patched_setitem(self, slice(None), value), self the dataset f[name]
patched_setitem(f, name, value) ==
    LET self == f[name]
        norm == ~IsNone(self.attrs.norm)
        beta == IF IsNone(self.attrs.beta) THEN BetaOne ELSE Val(self.attrs.beta)
        \* lines 64-67
        dtype == IF value.dtype = "float32" THEN "uint8" ELSE value.dtype
        bit == IF IsNone(self.attrs.bit) THEN 8 ELSE Val(self.attrs.bit)
        \* lines 74-79
        default_max == IF dtype = "uint16" THEN 65535 ELSE 255
        max_val == IF IsNone(self.attrs.init_max_intensity) THEN Whole(default_max)
                   ELSE Val(self.attrs.init_max_intensity)
        min_val == IF IsNone(self.attrs.init_min_intensity) THEN Whole(0)
                   ELSE Val(self.attrs.init_min_intensity)
        forward(x) == SetForward(x, norm, beta, MaxBitVal(bit), min_val, max_val)
        data == [i \in DOMAIN value.samples |-> forward(value.samples[i])]
        \* line 94
        cast == IF dtype \in {"uint8", "uint16"} THEN CastAll(data, ItemBits(dtype))
                ELSE {data}
    IN  IF IsNone(self.attrs.bit) \/ (~norm /\ ~BetaIsNotOne(beta))
        THEN {SetOutcome("ok", [f EXCEPT ![name] = H5Write(self, value.samples)],
                         value.samples)}
        ELSE {SetOutcome("ok", [f EXCEPT ![name] = H5Write(self, c)], c) : c \in cast}

\* One stored value through lines 34-46.  The attribute beta is positive.
GetInverse(v, norm, beta, max_bitType_val, min_val, max_val) ==
    IF norm
    THEN FAdd(FMul(IF BetaIsNotOne(beta)
                   THEN Power(FDiv(v, Whole(max_bitType_val)), beta.q, beta.p)
                   ELSE FDiv(v, Whole(max_bitType_val)),
                   FSub(max_val, min_val)),
              min_val)
    ELSE FClip(FAdd(Power(v, beta.q, beta.p), min_val), min_val, max_val)

\* _patched_getitem without the final astype(dtype): the restored samples are
\* returned in the type they are stored in
patched_getitem_stored(f, name) ==
    LET self == f[name]
        data == H5Read(self)
        norm == ~IsNone(self.attrs.norm)
        beta == IF IsNone(self.attrs.beta) THEN BetaOne ELSE Val(self.attrs.beta)
        bit == IF IsNone(self.attrs.bit) THEN 8 ELSE Val(self.attrs.bit)
        max_val == IF IsNone(self.attrs.init_max_intensity) THEN Whole(MaxBitVal(bit))
                   ELSE Val(self.attrs.init_max_intensity)
        min_val == IF IsNone(self.attrs.init_min_intensity) THEN Whole(0)
                   ELSE Val(self.attrs.init_min_intensity)
        inverse(v) == GetInverse(v, norm, beta, MaxBitVal(bit), min_val, max_val)
        restored == [i \in DOMAIN data.samples |-> inverse(data.samples[i])]
    IN  IF IsNone(self.attrs.bit) \/ (~norm /\ ~BetaIsNotOne(beta)) THEN {data}
        ELSE {Array(data.dtype, data.shape, c) :
                 c \in CastAll(restored, ItemBits(data.dtype))}

\* _patched_getitem without its two early returns (lines 18-19 and 26-27)
patched_getitem_always(f, name) ==
    LET self == f[name]
        data == H5Read(self)
        norm == ~IsNone(self.attrs.norm)
        beta == IF IsNone(self.attrs.beta) THEN BetaOne ELSE Val(self.attrs.beta)
        code == IF IsNone(self.attrs.data_type) THEN 0 ELSE Val(self.attrs.data_type)
        dtype == IF code = 1 THEN "uint16" ELSE IF code = 2 THEN "float32" ELSE "uint8"
        bit == IF IsNone(self.attrs.bit) THEN 8 ELSE Val(self.attrs.bit)
        max_val == IF IsNone(self.attrs.init_max_intensity) THEN Whole(MaxBitVal(bit))
                   ELSE Val(self.attrs.init_max_intensity)
        min_val == IF IsNone(self.attrs.init_min_intensity) THEN Whole(0)
                   ELSE Val(self.attrs.init_min_intensity)
        inverse(v) == GetInverse(v, norm, beta, MaxBitVal(bit), min_val, max_val)
        restored == [i \in DOMAIN data.samples |-> inverse(data.samples[i])]
    IN  IF dtype = "float32" THEN {Array(dtype, data.shape, restored)}
        ELSE {Array(dtype, data.shape, c) : c \in CastAll(restored, ItemBits(dtype))}

\* _patched_getitem(self, slice(None)), self the dataset f[name]: the arrays
\* a read can return
patched_getitem(f, name) ==
    LET self == f[name]
        data == H5Read(self)
        norm == ~IsNone(self.attrs.norm)
        beta == IF IsNone(self.attrs.beta) THEN BetaOne ELSE Val(self.attrs.beta)
        \* lines 23-24
        code == IF IsNone(self.attrs.data_type) THEN 0 ELSE Val(self.attrs.data_type)
        dtype == IF code = 1 THEN "uint16" ELSE IF code = 2 THEN "float32" ELSE "uint8"
        bit == IF IsNone(self.attrs.bit) THEN 8 ELSE Val(self.attrs.bit)
        max_val == IF IsNone(self.attrs.init_max_intensity) THEN Whole(MaxBitVal(bit))
                   ELSE Val(self.attrs.init_max_intensity)
        min_val == IF IsNone(self.attrs.init_min_intensity) THEN Whole(0)
                   ELSE Val(self.attrs.init_min_intensity)
        inverse(v) == GetInverse(v, norm, beta, MaxBitVal(bit), min_val, max_val)
        restored == [i \in DOMAIN data.samples |-> inverse(data.samples[i])]
        cast == IF dtype = "float32" THEN {restored}
                ELSE CastAll(restored, ItemBits(dtype))
    IN  IF IsNone(self.attrs.bit) \/ (~norm /\ ~BetaIsNotOne(beta)) THEN {data}
        ELSE {Array(dtype, data.shape, c) : c \in cast}

-----------------------------------------------------------------------------
(* Calls of the array layer.  The machine has no accelerator; the options  *)
(* are those ffmpeg() returns on it.                                       *)

StoreHost ==
    [os |-> "posix", nvidia |-> [run |-> "notfound", gpus |-> 0],
     intel |-> [run |-> "notfound", marker |-> FALSE]]

StoreRequests ==
    {[DefaultRequest EXCEPT !.bit_mode = b] : b \in {0, 1, 2, 3}}
        \cup {[DefaultRequest EXCEPT !.codec = "libx265", !.preset = Some("slow"),
                                     !.crf = Some(18), !.film_grain = 5]}

StoreOptions == {ffmpeg(r, StoreHost).opts : r \in StoreRequests}

Volume == <<100, 256, 256>>
Plane == <<256, 256>>

Samples(a, b, c) == <<Whole(a), Whole(b), Whole(c)>>

\* The arrays written.  Square has the maximum 255^2 and Small the maximum
\* 255; Floats has the range 255, with negative values.
Data ==
    [Bytes |-> Array("uint8", Volume, Samples(0, 100, 255)),
     FlatBytes |-> Array("uint8", Plane, Samples(0, 100, 255)),
     Words |-> Array("uint16", Volume, Samples(0, 16448, 65535)),
     FlatWords |-> Array("uint16", Plane, Samples(0, 16448, 65535)),
     SquareWords |-> Array("uint16", Volume, Samples(0, 65024, 65025)),
     SmallWords |-> Array("uint16", Volume, Samples(0, 100, 255)),
     ZeroWords |-> Array("uint16", Volume, Samples(0, 0, 0)),
     UnitWords |-> Array("uint16", Volume, Samples(0, 1, 1)),
     Floats |-> Array("float32", Volume, Samples(-100, 0, 155)),
     ConstantFloats |-> Array("float32", Volume, Samples(5, 5, 5)),
     NanFloats |-> Array("float32", Volume, <<Whole(0), NaN, Whole(1)>>),
     Doubles |-> Array("float64", Volume, Samples(0, 1, 2))]

Betas == {Beta(1, 2, FALSE), BetaOne, Beta(2, 1, FALSE)}

\* chunk shapes and shapes of every kind, for uint8 data and for no data
ChunkCalls ==
    {CreateArgs("a", shape, dtype, data, FFMPEG_ID, opts, chunks, FALSE, BetaOne) :
        shape \in {None, Some(Volume), Some(Plane)},
        dtype \in {None, Some("uint8")},
        data \in {None, Some(Data.Bytes), Some(Data.FlatBytes)},
        opts \in StoreOptions \cup {<<>>},
        chunks \in {ChunksNone, ChunkSpec("True", <<>>), ChunksTuple(Volume),
                    ChunksTuple(<<1, 256, 256>>), ChunksTuple(<<64, 64>>),
                    ChunkSpec("list", <<1, 256, 256>>)}}

\* data of every type, with every profile
QuantCalls ==
    {CreateArgs("a", None, None, Some(data), FFMPEG_ID, opts, ChunksNone, norm, beta) :
        data \in {Data.Bytes, Data.Words, Data.FlatWords, Data.SquareWords,
                  Data.SmallWords, Data.ZeroWords, Data.UnitWords, Data.Floats,
                  Data.ConstantFloats, Data.NanFloats, Data.Doubles},
        opts \in StoreOptions, norm \in BOOLEAN, beta \in Betas}

\* a dataset declared by shape and type, to be written later
DeclareCalls ==
    {CreateArgs("a", Some(Volume), Some(dtype), data, FFMPEG_ID, opts, ChunksNone,
                norm, beta) :
        dtype \in {"uint8", "uint16", "float32"},
        data \in {None, Some(Data.Bytes), Some(Data.SmallWords)},
        opts \in StoreOptions, norm \in BOOLEAN, beta \in Betas}

\* datasets without the filter
PlainCalls ==
    {CreateArgs("b", shape, None, data, 0, <<>>, ChunksNone, FALSE, BetaOne) :
        shape \in {None, Some(Volume)},
        data \in {None, Some(Data.Words), Some(Data.Floats), Some(Data.Doubles)}}

\* The calls the model makes: a shape given with data is the data's, the
\* derived exponent is one the model computes, and the powers stay within the
\* integers of the model: data of range 1 or 255^2 is not normalized, and data
\* of a range above 255 is not normalized with an exponent above 1.
Modelled(a) ==
    \/ IsNone(a.data)
    \/ LET d == Val(a.data)
           lo == IF d.dtype = "float32" THEN AMin(d.samples) ELSE Whole(0)
           range == FSub(AMax(d.samples), lo)
       IN  /\ IsNone(a.shape) \/ Val(a.shape) = d.shape
           /\ LogBeta(MaxBitVal(BitOf(a.compression_opts)), range).kind # "irrational"
                 \/ a.norm \/ d.dtype \notin {"uint16", "float32"}
           /\ ~(a.norm /\ range \in {Whole(1), Whole(65025)})
           /\ ~(a.norm /\ a.beta.p > a.beta.q /\ ~FLeq(range, Whole(255)))

CreateCalls ==
    {a \in ChunkCalls \cup QuantCalls \cup DeclareCalls \cup PlainCalls : Modelled(a)}

\* the calls made with a name that is taken
RepeatCalls ==
    {a \in CreateCalls : a.compression_opts = <<>> /\ a.chunks = ChunksNone}

SetValues ==
    {Array("uint8", Volume, Samples(0, 100, 255)),
     Array("uint16", Volume, Samples(0, 300, 5000)),
     Array("float32", Volume, <<Whole(0), Frac(1, 2), Whole(1)>>),
     Array("float32", Volume, Samples(-100, 28, 155)),
     Array("float64", Volume, Samples(0, 1, 2))}

\* `source` of the dataset `name` (see H5NewDataset)
Remember(f, name, array) ==
    IF f[name].exists THEN [f EXCEPT ![name] = [@ EXCEPT !.source = array]] ELSE f

InitStore ==
    /\ host = StoreHost
    /\ last = [op |-> "none"]
    /\ file = EmptyFile

\* A call of file.create_dataset(name, shape, dtype, data, **kwargs)
Create ==
    /\ Idle
    /\ \E a \in CreateCalls :
        /\ file[a.name].exists => a \in RepeatCalls
        /\ \E o \in patched_create_dataset(file, a) :
            /\ last' = [op |-> "create_dataset", args |-> a, out |-> o]
            /\ file' = IF file[a.name].exists THEN o.file
                       ELSE Remember(o.file, a.name, a.data)
        /\ UNCHANGED host

\* dataset[:] = value
SetItem ==
    /\ Idle
    /\ \E name \in DatasetNames, value \in SetValues :
        /\ file[name].exists
        /\ \E o \in patched_setitem(file, name, value) :
            /\ last' = [op |-> "setitem", name |-> name, value |-> value, out |-> o]
            /\ file' = Remember(o.file, name, Some(value))
        /\ UNCHANGED host

\* dataset[:]
GetItem ==
    /\ Idle
    /\ \E name \in DatasetNames :
        /\ file[name].exists
        /\ \E o \in patched_getitem(file, name) :
            last' = [op |-> "getitem", name |-> name, out |-> o]
        /\ UNCHANGED <<host, file>>

NextStore == Create \/ SetItem \/ GetItem \/ Return

SpecStore == InitStore /\ [][NextStore]_vars

\* The arrays and chunk shapes of a caller that reuses its options
ReuseData == {Data.Bytes, Data.SmallWords, Data.Floats}
ReuseChunks == {ChunksNone, ChunksTuple(<<1, 256, 256>>), ChunksTuple(<<50, 128, 128>>)}

NoCalls == [n \in DatasetNames |-> None]

\* as ReuseCreate, with kwargs being the caller's dictionary itself
ReuseCreate_shared ==
    /\ last.op \in {"none", "reuse"}
    /\ \E options \in (IF last.op = "reuse" THEN {last.options} ELSE StoreOptions),
          name \in DatasetNames, data \in ReuseData, chunks \in ReuseChunks :
        LET a == CreateArgs(name, None, None, Some(data), FFMPEG_ID, options, chunks,
                            TRUE, BetaOne)
            calls == IF last.op = "reuse" THEN last.calls ELSE NoCalls
        IN  /\ ~file[name].exists
            /\ \E o \in patched_create_dataset(file, a) :
                /\ last' = [op |-> "reuse",
                            given |-> IF last.op = "reuse" THEN last.given ELSE options,
                            options |-> IF o.kind = "ok" THEN o.handed.opts ELSE options,
                            calls |-> [calls EXCEPT ![name] = Some(a)],
                            args |-> a, out |-> o]
                /\ file' = Remember(o.file, name, a.data)
    /\ UNCHANGED host

\* A caller that keeps one options dictionary and makes each call as
\* file.create_dataset(name, data=data, chunks=chunks, norm=True, **options).
\* kwargs (line 103) is a dictionary of the call, built from the keywords, and
\* compression_opts is rebuilt from copies (lines 109 and 151): what the
\* call pops and assigns stays in kwargs, and `options` is as it was.
\* `given` is the dictionary before the first call and `calls` the call that
\* made each dataset.
ReuseCreate ==
    /\ last.op \in {"none", "reuse"}
    /\ \E options \in (IF last.op = "reuse" THEN {last.options} ELSE StoreOptions),
          name \in DatasetNames, data \in ReuseData, chunks \in ReuseChunks :
        LET a == CreateArgs(name, None, None, Some(data), FFMPEG_ID, options, chunks,
                            TRUE, BetaOne)
            calls == IF last.op = "reuse" THEN last.calls ELSE NoCalls
        IN  /\ ~file[name].exists
            /\ \E o \in patched_create_dataset(file, a) :
                /\ last' = [op |-> "reuse",
                            given |-> IF last.op = "reuse" THEN last.given ELSE options,
                            options |-> options,
                            calls |-> [calls EXCEPT ![name] = Some(a)],
                            args |-> a, out |-> o]
                /\ file' = Remember(o.file, name, a.data)
    /\ UNCHANGED host

SpecReuse == InitStore /\ [][ReuseCreate]_vars

-----------------------------------------------------------------------------
(* The read path of the chunk filter, after the specification (section 4.2 *)
(* and the data flow of section 2): the container is decoded, the stored   *)
(* hardware choice is validated again on this machine, and the parameters  *)
(* and the payload go to the codec engine.                                 *)

Container(params, payload) == [params |-> params, payload |-> payload]

\* The name of a decoder id (CODEC_TO_DECODER read backwards)
DecoderName(id) ==
    CODEC_TO_DECODER[CHOOSE i \in 1..Len(CODEC_TO_DECODER) :
                        CODEC_TO_DECODER[i][2] = id][1]

HardwareDecoders == NamesContaining.cuvid \cup NamesContaining.qsv

ToEngine(kind, container, probes) ==
    [kind |-> kind, params |-> container.params, payload |-> container.payload,
     probes |-> probes]

\* What the codec engine is handed for a stored container
ReadChunk(c, h) ==
    LET name == DecoderName(c.params[2])
        v == validate_and_adjust_gpu_id(name, c.params[11], h)
    IN  IF v.kind # "ok" THEN ToEngine(v.kind, Container(<<>>, <<>>), v.probes)
        ELSE IF name \in HardwareDecoders /\ v.value = -1
        THEN ToEngine("ok",
                 Container([c.params EXCEPT ![2] = Get(DEFAULT_DECODER, c.params[1]),
                                            ![11] = 0],
                           c.payload),
                 v.probes)
        ELSE ToEngine("ok", c, v.probes)

Payloads == {<<>>, <<7>>, <<1, 2, 3>>}

\* The containers in the file: written with the options ffmpeg() gave for a
\* request, the dimensions those of the chunk.
StoredRequests ==
    {[DefaultRequest EXCEPT !.codec = c, !.gpu_id = g] :
        c \in EncoderNames, g \in {0, 1, MaxGpuId}}

StoredContainers ==
    {Container(SetDimensions(ffmpeg(r, StoreHost).opts, Volume), payload) :
        r \in StoredRequests, payload \in Payloads}

\* A chunk is read.
Read ==
    /\ Idle
    /\ \E c \in StoredContainers :
        /\ last' = [op |-> "read", container |-> c, out |-> ReadChunk(c, host)]
        /\ UNCHANGED <<host, file>>

NextRead == Read \/ Return \/ HostChange

SpecRead == Init /\ [][NextRead]_vars

-----------------------------------------------------------------------------
(* The container of a chunk.  constants.py holds the header constants; the *)
(* encoder and the decoder are those of the chunk filter, after section    *)
(* 4.4 of the specification.  A buffer is a sequence of bytes; integers    *)
(* are in the byte order of the writing machine, little-endian here.    *)

\* get_current_header_version(): the major version of the package, 2 where
\* _version cannot be imported
HEADER_VERSION == 2
METADATA_FIELDS == 11
METADATA_SIZE == METADATA_FIELDS * 4 + 8
HEADER_SIZE == 8

\* The n bytes of v
RECURSIVE LE(_, _)
LE(v, n) == IF n = 0 THEN <<>> ELSE <<v % 256>> \o LE(v \div 256, n - 1)

\* The integer of a byte string; one that exceeds the integers of the model
\* reads as the largest of them, which exceeds the length of every buffer.
FromLE(bytes) ==
    LET at(i) == IF i <= Len(bytes) THEN bytes[i] ELSE 0
    IN  IF at(4) > 127 \/ \E i \in 5..Len(bytes) : bytes[i] # 0
        THEN 2147483647
        ELSE at(1) + 256 * at(2) + 65536 * at(3) + 16777216 * at(4)

\* metadata_size that counts ten fields
Encode_short(params, payload) ==
    LE((METADATA_FIELDS - 1) * 4, 4) \o LE(HEADER_VERSION, 4)
        \o LE(params[1], 4) \o LE(params[2], 4) \o LE(params[3], 4)
        \o LE(params[4], 4) \o LE(params[5], 4) \o LE(params[6], 4)
        \o LE(params[7], 4) \o LE(params[8], 4) \o LE(params[9], 4)
        \o LE(params[10], 4) \o LE(params[11], 4)
        \o LE(Len(payload), 8) \o payload

\* metadata_size, format_version, the eleven fields, payload_size, payload
Encode(params, payload) ==
    LE(METADATA_FIELDS * 4, 4) \o LE(HEADER_VERSION, 4)
        \o LE(params[1], 4) \o LE(params[2], 4) \o LE(params[3], 4)
        \o LE(params[4], 4) \o LE(params[5], 4) \o LE(params[6], 4)
        \o LE(params[7], 4) \o LE(params[8], 4) \o LE(params[9], 4)
        \o LE(params[10], 4) \o LE(params[11], 4)
        \o LE(Len(payload), 8) \o payload

\* The result of a decode: `read` lists the sections read from the buffer.
Decoded(kind, params, payload, read) ==
    [kind |-> kind, params |-> params, payload |-> payload, read |-> read]

\* A decoder that parses the metadata whatever the version
Decode_anyVersion(buffer) ==
    LET metadata_size == FromLE(SubSeq(buffer, 1, 4))
        body == HEADER_SIZE + metadata_size
        params == [i \in 1..(metadata_size \div 4) |->
                      FromLE(SubSeq(buffer, HEADER_SIZE + 4 * i - 3, HEADER_SIZE + 4 * i))]
        payload_size == FromLE(SubSeq(buffer, body + 1, body + 8))
        all == <<"metadata_size", "format_version", "parameters", "payload_size">>
    IN  IF Len(buffer) < HEADER_SIZE THEN Decoded("InvalidContainer", <<>>, <<>>, <<>>)
        ELSE IF Len(buffer) - HEADER_SIZE - 8 < metadata_size
        THEN Decoded("InvalidContainer", <<>>, <<>>, SubSeq(all, 1, 2))
        ELSE IF Len(buffer) - body - 8 < payload_size
        THEN Decoded("InvalidContainer", <<>>, <<>>, all)
        ELSE Decoded("ok", params,
                     SubSeq(buffer, body + 9, body + 8 + payload_size),
                     all \o <<"payload">>)

Decode(buffer) ==
    LET metadata_size == FromLE(SubSeq(buffer, 1, 4))
        format_version == FromLE(SubSeq(buffer, 5, 8))
        body == HEADER_SIZE + metadata_size
        params == [i \in 1..(metadata_size \div 4) |->
                      FromLE(SubSeq(buffer, HEADER_SIZE + 4 * i - 3, HEADER_SIZE + 4 * i))]
        payload_size == FromLE(SubSeq(buffer, body + 1, body + 8))
        all == <<"metadata_size", "format_version", "parameters", "payload_size">>
    IN  IF Len(buffer) < HEADER_SIZE THEN Decoded("InvalidContainer", <<>>, <<>>, <<>>)
        ELSE IF format_version # HEADER_VERSION
        THEN Decoded("VersionMismatch", <<>>, <<>>, SubSeq(all, 1, 2))
        ELSE IF Len(buffer) - HEADER_SIZE - 8 < metadata_size
        THEN Decoded("InvalidContainer", <<>>, <<>>, SubSeq(all, 1, 2))
        ELSE IF Len(buffer) - body - 8 < payload_size
        THEN Decoded("InvalidContainer", <<>>, <<>>, all)
        ELSE Decoded("ok", params,
                     SubSeq(buffer, body + 9, body + 8 + payload_size),
                     all \o <<"payload">>)

\* The parameters written: those of the stored containers, and tuples of
\* small and large field values.
WireParams ==
    {c.params : c \in StoredContainers}
        \cup {[i \in 1..METADATA_FIELDS |-> v] : v \in {0, 255, 2147483647}}
        \cup {<<1, 256, 65536, 16777216, 257, 65535, 65537, 2, 51, 10, 3>>}

\* What became of a written buffer before it is read: nothing, another
\* version number, or the loss of its end.
Changes ==
    {[kind |-> "none", arg |-> 0]}
        \cup {[kind |-> "version", arg |-> v] :
                 v \in {0, HEADER_VERSION - 1, HEADER_VERSION + 1, 16777216}}
        \cup {[kind |-> "truncated", arg |-> n] : n \in {0, 7, 8, 30, 59, 60}}

Changed(buffer, change) ==
    IF change.kind = "version"
    THEN SubSeq(buffer, 1, 4) \o LE(change.arg, 4) \o SubSeq(buffer, 9, Len(buffer))
    ELSE IF change.kind = "truncated" THEN SubSeq(buffer, 1, Min(change.arg, Len(buffer)))
    ELSE buffer

\* A chunk is written.
EncodeChunk ==
    /\ Idle
    /\ \E params \in WireParams, payload \in Payloads :
        /\ last' = [op |-> "encode", params |-> params, payload |-> payload,
                    out |-> Encode(params, payload)]
        /\ UNCHANGED <<host, file>>

\* A buffer is read: the container of (params, payload), after `change`.
DecodeChunk ==
    /\ Idle
    /\ \E params \in WireParams, payload \in Payloads, change \in Changes :
        LET buffer == Changed(Encode(params, payload), change)
        IN  /\ last' = [op |-> "decode", params |-> params, payload |-> payload,
                        change |-> change, buffer |-> buffer, out |-> Decode(buffer)]
            /\ UNCHANGED <<host, file>>

NextContainer == EncodeChunk \/ DecodeChunk \/ Return

SpecContainer == InitStore /\ [][NextContainer]_vars

-----------------------------------------------------------------------------
(* Properties of the resolver and of the negotiator (checked under Spec) *)

IsResolve == last.op = "ffmpeg"
IsValidate == last.op = "validate"

\* The ten codec names of the encoder table, as the documentation lists them.
KnownCodecNames ==
    {"mpeg4", "libxvid", "libx264", "h264_nvenc", "libx265", "hevc_nvenc",
     "libsvtav1", "librav1e", "av1_nvenc", "av1_qsv"}

DecoderGiven(req) == ~IsNone(req.decoder)
DecoderOk(req) == IsNone(req.decoder) \/ Val(req.decoder) \in DecoderNames

\* The names of codec c in `mapping`; empty for a codec it does not hold.
Vocabulary(mapping, c) == KeySet(GetOrEmpty(mapping, c))

\* C1: ffmpeg() called with a codec name that is not in the encoder table
\* fails with a ValueError whose message lists every known codec name once and
\* returns no options; for a name in the table the encoder lookup does not fail.
C1_UnknownCodecRejected ==
    IsResolve =>
        LET req == last.req
            out == last.out
        IN  /\ req.codec \notin KnownCodecNames =>
                 /\ out.kind = "ValueError"
                 /\ out.what = "codec"
                 /\ SeqSet(out.listed) = KnownCodecNames
                 /\ Len(out.listed) = Cardinality(KnownCodecNames)
                 /\ out.opts = <<>>
            /\ req.codec \in KnownCodecNames =>
                 ~(out.kind = "ValueError" /\ out.what = "codec")

C1_Witness ==
    /\ IsResolve
    /\ last.req.codec = "bogus"
    /\ last.out.kind = "ValueError"
    /\ "av1_qsv" \in SeqSet(last.out.listed)

\* The nine presets of libx264.
X264PresetNames ==
    {"ultrafast", "superfast", "veryfast", "faster", "fast", "medium", "slow",
     "slower", "veryslow"}

\* One of preset/tune resolved in the codec's own vocabulary: a name of the
\* vocabulary is not refused and, when the call succeeds, gives its id in
\* field `slot`; any other name is refused with a message listing exactly the
\* codec's own names.
InOwnVocabulary(mapping, what, given, slot) ==
    LET req == last.req
        out == last.out
        own == Vocabulary(mapping, req.codec)
        refused == out.kind = "ValueError" /\ out.what = what
    IN  ~IsNone(given) =>
          /\ Val(given) \in own =>
               /\ ~refused
               /\ out.kind = "ok" =>
                    out.opts[slot] = Get(Get(mapping, req.codec), Val(given))
          /\ Val(given) \notin own =>
               /\ refused
               /\ SeqSet(out.listed) = own
               /\ Len(out.listed) = Cardinality(own)
               /\ out.opts = <<>>

\* C2: preset and tune names are resolved only in the vocabulary of the
\* requested codec: a name is accepted, with that codec's id for it, iff it is
\* in the codec's own vocabulary; otherwise the call fails listing exactly that
\* codec's names (for libx264 its nine presets); a codec without vocabulary
\* refuses every name.  (The decoder is checked before the preset, and the
\* preset before the tune.)
C2_NamesScopedToCodec ==
    (IsResolve /\ last.req.codec \in KnownCodecNames /\ DecoderOk(last.req)) =>
        /\ InOwnVocabulary(PRESET_MAPPING, "preset", last.req.preset, 7)
        /\ (last.out.what # "preset" =>
                InOwnVocabulary(TUNE_MAPPING, "tune", last.req.tune, 8))
        /\ (last.req.codec = "libx264" /\ last.out.what = "preset" =>
                SeqSet(last.out.listed) = X264PresetNames /\ Len(last.out.listed) = 9)
        /\ (last.req.codec \in {"mpeg4", "libxvid"} /\ ~IsNone(last.req.preset) =>
                last.out.what = "preset" /\ last.out.listed = <<>>)

C2_Witness ==
    /\ IsResolve
    /\ last.req.codec = "libx264"
    /\ last.req.preset = Some("p4")
    /\ last.out.kind = "ValueError"
    /\ last.out.what = "preset"
    /\ "p4" \notin SeqSet(last.out.listed)

IsExampleRequest(req) ==
    /\ req.codec = "libx264"
    /\ req.preset = Some("medium")
    /\ req.crf = Some(23)
    /\ req.bit_mode = 0
    /\ req.gpu_id = 0
    /\ IsNone(req.decoder) /\ IsNone(req.tune) /\ req.film_grain = 0

Given(o) == IF IsNone(o) THEN 0 ELSE Val(o)

\* C4: a successful ffmpeg() returns exactly eleven fields in the order
\* (encoder, decoder, width, height, depth, bit_mode, preset, tune, quality,
\* grain, gpu); width, height and depth are the request's, 0 when not given,
\* and a given 0 stays 0; the example request gives X264, H264, bit_mode 0,
\* preset X264_MEDIUM (15), tune NONE, quality 23, grain 0, gpu 0.
C4_ElevenFields ==
    (IsResolve /\ last.out.kind = "ok") =>
        LET req == last.req
            opts == last.out.opts
        IN  /\ Len(opts) = 11
            /\ opts[1] = Get(CODEC_TO_ENCODER, req.codec)
            /\ opts[3] = Given(req.width)
            /\ opts[4] = Given(req.height)
            /\ opts[5] = Given(req.depth)
            /\ opts[6] = req.bit_mode
            /\ opts[9] = Given(req.crf)
            /\ opts[10] = req.film_grain
            /\ opts[11] = req.gpu_id
            /\ IsExampleRequest(req) =>
                 /\ SubSeq(opts, 1, 2) = <<2, 1>>
                 /\ SubSeq(opts, 6, 11) = <<0, 15, 0, 23, 0, 0>>

C4_Witness ==
    /\ IsResolve
    /\ IsExampleRequest(last.req)
    /\ last.req.width = Some(256) /\ last.req.height = Some(0)
    /\ last.req.depth = Some(100)
    /\ last.out.kind = "ok"
    /\ last.out.opts = <<2, 1, 256, 0, 100, 0, 15, 0, 23, 0, 0>>

\* The codec names that need an NVIDIA device, and those that need an Intel one.
NvidiaClass ==
    {"h264_nvenc", "hevc_nvenc", "av1_nvenc", "h264_cuvid", "hevc_cuvid", "av1_cuvid"}
IntelClass == {"av1_qsv"}

\* C6: validate_and_adjust_gpu_id with requested_gpu_id >= 0, given the probed
\* pair (nvidia count, intel present): an nvidia-class codec gets -1 if the
\* count is 0, count-1 if the request is >= count, else the request; an
\* intel-class codec gets 0 if an Intel device is present, else -1; any other
\* codec gets the request unchanged.
C6_ValidateGpuId ==
    (IsValidate /\ last.requested >= 0 /\ last.out.kind = "ok") =>
        LET r == last.requested
            v == last.out.value
            count == Val(last.out.gpu_info).nvidia
            intel == Val(last.out.gpu_info).intel
        IN  /\ last.codec \in NvidiaClass =>
                 v = IF count = 0 THEN -1 ELSE IF r >= count THEN count - 1 ELSE r
            /\ last.codec \in IntelClass =>
                 v = IF intel > 0 THEN 0 ELSE -1
            /\ last.codec \notin (NvidiaClass \cup IntelClass) => v = r
            /\ (last.codec = "h264_nvenc" /\ r = 0 /\ count = 0) => v = -1
            /\ (last.codec = "h264_nvenc" /\ r = 5 /\ count = 2) => v = 1
            /\ (last.codec = "av1_qsv" /\ r = 3 /\ intel > 0) => v = 0

C6_Witness ==
    /\ IsValidate
    /\ last.codec = "h264_nvenc"
    /\ last.requested = 5
    /\ last.out.kind = "ok"
    /\ Val(last.out.gpu_info).nvidia = 2
    /\ last.out.value = 1

\* C7: an explicit CPU request never probes hardware: validate with a
\* requested id < 0 returns -1 having started no probe process, and ffmpeg()
\* with gpu_id < 0 starts none either, whatever the codec.
C7_CpuRequestNeverProbes ==
    /\ (IsValidate /\ last.requested < 0) =>
          /\ last.out.kind = "ok"
          /\ last.out.value = -1
          /\ last.out.probes = <<>>
    /\ (IsResolve /\ last.req.gpu_id < 0) => last.out.probes = <<>>

C7_Witness ==
    /\ IsResolve
    /\ last.req.codec = "h264_nvenc"
    /\ last.req.gpu_id = -1
    /\ host.nvidia.run = "oserror"
    /\ last.out.kind = "ok"
    /\ last.out.probes = <<>>

NoProbeRaises(h) == h.nvidia.run # "oserror" /\ h.intel.run # "oserror"

\* C8: for a request naming an nvidia-class or intel-class codec, ffmpeg()
\* does not raise because of absent hardware and the gpu field of the options
\* it returns is validate_and_adjust_gpu_id(codec, gpu_id) on this machine.
C8_ResolverUsesNegotiator ==
    (/\ IsResolve
     /\ last.req.codec \in (NvidiaClass \cup IntelClass)
     /\ DecoderOk(last.req)
     /\ IsNone(last.req.preset) /\ IsNone(last.req.tune)
     /\ NoProbeRaises(host)) =>
        /\ last.out.kind = "ok"
        /\ last.out.opts[11] =
              validate_and_adjust_gpu_id(last.req.codec, last.req.gpu_id, host).value

-----------------------------------------------------------------------------
(* Properties of the array layer and of the read path *)

IsCreate == last.op = "create_dataset"
IsGetItem == last.op = "getitem"
IsRead == last.op = "read"

\* C5: when create_dataset with FFMPEG compression is given the options of
\* ffmpeg() and creates the dataset, the options it handed over have eleven fields,
\* fields 3-5 (width, height, depth) are the chunk shape reversed, a chunk
\* tuple given by the caller is the one used, and the encoder, decoder, preset,
\* tune, crf, film grain and gpu fields are those given.
C5_ElevenFieldsToStore ==
    (/\ IsCreate
     /\ last.args.compression = FFMPEG_ID
     /\ last.args.compression_opts \in StoreOptions
     /\ last.out.kind = "ok") =>
        LET given == last.args.compression_opts
            opts == last.out.handed.opts
            chunks == Val(last.out.handed.chunks)
        IN  /\ Len(opts) = 11
            /\ <<opts[3], opts[4], opts[5]>> = Reverse(chunks)
            /\ last.args.chunks.kind = "tuple" => chunks = last.args.chunks.dims
            /\ \A i \in {1, 2, 7, 8, 9, 10, 11} : opts[i] = given[i]

\* |x - y| <= step
Within(x, y, step) == FLeq(FSub(x, y), step) /\ FLeq(FSub(y, x), step)

\* The samples written lie between the profile's minimum and maximum.
InProfileRange(ds) ==
    \A i \in 1..Len(Val(ds.source).samples) :
        /\ FLeq(Val(ds.attrs.init_min_intensity), Val(ds.source).samples[i])
        /\ FLeq(Val(ds.source).samples[i], Val(ds.attrs.init_max_intensity))

\* C10: a read of a dataset that has a profile, after a write of uint8, uint16
\* or float32 samples lying within the profile's range, returns for each
\* sample a value within one step (max - min) / (2^bit - 1) of it.
C10_RoundTripWithinOneStep ==
    (/\ IsGetItem
     /\ ~IsNone(file[last.name].source)
     /\ ~IsNone(file[last.name].attrs.data_type)
     /\ Val(file[last.name].source).dtype \in SupportedDTypes
     /\ InProfileRange(file[last.name])) =>
        LET ds == file[last.name]
            step == FDiv(FSub(Val(ds.attrs.init_max_intensity),
                              Val(ds.attrs.init_min_intensity)),
                         Whole(MaxBitVal(Val(ds.attrs.bit))))
        IN  \A i \in 1..Len(last.out.samples) :
                /\ IsFinite(last.out.samples[i])
                /\ Within(last.out.samples[i], Val(ds.source).samples[i], step)

\* The decoder recorded in the container needs hardware this machine lacks.
NotUsable(c, h) ==
    LET name == DecoderName(c.params[2])
        gpu_info == detect_available_gpus(h).value
    IN  \/ name \in NvidiaClass /\ gpu_info.nvidia = 0
        \/ name \in IntelClass /\ gpu_info.intel = 0

IsSetItem == last.op = "setitem"

\* The profile of the dataset is the identity one: 'bit' is set, 'norm' and
\* 'beta' are not (normalize = false, beta = 1.0).
IdentityProfile(ds) ==
    /\ ds.exists
    /\ ~IsNone(ds.attrs.bit)
    /\ IsNone(ds.attrs.norm)
    /\ IsNone(ds.attrs.beta)

\* C11: after a slice assignment to a dataset whose profile is the identity
\* one, each stored value is the written sample clipped to [0, 2^bit - 1] and
\* truncated to an integer.
C11_IdentityFastPathClips ==
    (IsSetItem /\ IdentityProfile(file[last.name])) =>
        LET ds == file[last.name]
            top == Whole(MaxBitVal(Val(ds.attrs.bit)))
        IN  \A i \in 1..Len(last.value.samples) :
                ds.values[i] = Whole(FTrunc(FClip(last.value.samples[i], Whole(0), top)))

\* The range of the data of a create_dataset call: max - min for float32,
\* max for uint16 (whose minimum is taken as 0).
DataRange(a) ==
    LET d == Val(a.data)
    IN  FSub(AMax(d.samples),
             IF d.dtype = "float32" THEN AMin(d.samples) ELSE Whole(0))

\* C12: create_dataset with FFMPEG compression from uint16 or float32 data
\* whose range is 0 or 1, under a free name, completes without an exception
\* and creates the dataset, whether normalize is set or not.
C12_ZeroRangeWriteCompletes ==
    (/\ IsCreate
     /\ last.args \in QuantCalls
     /\ Val(last.args.data).dtype \in {"uint16", "float32"}
     /\ DataRange(last.args) \in {Whole(0), Whole(1)}) =>
        /\ last.out.kind = "ok"
        /\ file[last.args.name].exists

\* C13: a write of samples of a type other than uint8, uint16 and float32 is
\* refused: create_dataset with FFMPEG compression from such data raises
\* without calling the store and creates nothing, and a slice assignment of
\* such a value to a dataset that has a profile raises.
C13_UnsupportedTypeRejected ==
    /\ (/\ IsCreate
        /\ last.args.compression = FFMPEG_ID
        /\ ~IsNone(last.args.data)
        /\ Val(last.args.data).dtype \notin SupportedDTypes) =>
            /\ last.out.kind # "ok"
            /\ last.out.handed = NoHanded
            /\ ~file[last.args.name].exists
    /\ (/\ IsSetItem
        /\ ~IsNone(file[last.name].attrs.bit)
        /\ last.value.dtype \notin SupportedDTypes) =>
            last.out.kind # "ok"

NoProfile(ds) == ds.exists /\ IsNone(ds.attrs.bit)

\* C14: for a dataset without the 'bit' attribute a read returns what the
\* store returns, a slice assignment hands the store the value given, and a
\* read after a write of samples of the dataset's own type returns them.
C14_PassThroughWithoutProfile ==
    /\ (IsGetItem /\ NoProfile(file[last.name])) =>
            /\ last.out = H5Read(file[last.name])
            /\ (/\ ~IsNone(file[last.name].source)
                /\ Val(file[last.name].source).dtype = file[last.name].dtype) =>
                    last.out.samples = Val(file[last.name].source).samples
    /\ (IsSetItem /\ NoProfile(file[last.name])) =>
            /\ last.out.kind = "ok"
            /\ last.out.written = last.value.samples
            /\ file[last.name] =
                   Remember(last.out.file, last.name, Some(last.value))[last.name]
            /\ file[last.name].values =
                   H5Write(file[last.name], last.value.samples).values

C14_Witness ==
    /\ IsGetItem
    /\ last.name = "b"
    /\ NoProfile(file["b"])
    /\ file["b"].source = Some(Data.Floats)
    /\ last.out.samples = Data.Floats.samples
    /\ file["a"].exists
    /\ ~IsNone(file["a"].attrs.bit)

\* C15: a read of a dataset whose profile is not the identity one (norm set,
\* or beta set) returns samples between the profile's minimum and maximum.
C15_ReadWithinProfileRange ==
    (/\ IsGetItem
     /\ ~IsNone(file[last.name].attrs.bit)
     /\ ~IdentityProfile(file[last.name])) =>
        \A i \in 1..Len(last.out.samples) :
            /\ IsFinite(last.out.samples[i])
            /\ FLeq(Val(file[last.name].attrs.init_min_intensity), last.out.samples[i])
            /\ FLeq(last.out.samples[i], Val(file[last.name].attrs.init_max_intensity))

-----------------------------------------------------------------------------
(* Properties of the container *)

IsEncode == last.op = "encode"
IsDecode == last.op = "decode"

\* C16: decoding the buffer written for (params, payload) returns params and
\* payload; the buffer is metadata_size (4 bytes, 44), format_version (4
\* bytes), the eleven fields (4 bytes each), payload_size (8 bytes) and the
\* payload, in this order.
C16_ContainerRoundTrip ==
    /\ (IsDecode /\ last.change.kind = "none") =>
            /\ last.out.kind = "ok"
            /\ last.out.params = last.params
            /\ last.out.payload = last.payload
    /\ IsEncode =>
            /\ Len(last.out) = 4 + 4 + 11 * 4 + 8 + Len(last.payload)
            /\ FromLE(SubSeq(last.out, 1, 4)) = 44
            /\ FromLE(SubSeq(last.out, 5, 8)) = HEADER_VERSION
            /\ \A i \in 1..11 :
                   FromLE(SubSeq(last.out, 8 + 4 * i - 3, 8 + 4 * i)) = last.params[i]
            /\ FromLE(SubSeq(last.out, 53, 60)) = Len(last.payload)
            /\ SubSeq(last.out, 61, Len(last.out)) = last.payload

C16_Witness ==
    /\ IsDecode
    /\ last.change.kind = "none"
    /\ last.out.kind = "ok"
    /\ Len(last.out.payload) > 1
    /\ last.out.params[4] = 16777216
    /\ last.out.params[11] = 3

\* C17: decoding a buffer whose format_version is not HEADER_VERSION fails
\* with VersionMismatch after reading metadata_size and format_version only,
\* and returns neither parameters nor payload.
C17_VersionGate ==
    (/\ IsDecode
     /\ Len(last.buffer) >= 8
     /\ FromLE(SubSeq(last.buffer, 5, 8)) # HEADER_VERSION) =>
        /\ last.out.kind = "VersionMismatch"
        /\ last.out.read = <<"metadata_size", "format_version">>
        /\ last.out.params = <<>>
        /\ last.out.payload = <<>>

C17_Witness ==
    /\ IsDecode
    /\ last.change = [kind |-> "version", arg |-> HEADER_VERSION + 1]
    /\ last.payload # <<>>
    /\ last.out.kind = "VersionMismatch"

\* C18: the metadata_size field of every buffer written is 44, and it is the
\* package's METADATA_SIZE.
C18_MetadataSizeIs44 ==
    IsEncode =>
        /\ FromLE(SubSeq(last.out, 1, 4)) = 44
        /\ FromLE(SubSeq(last.out, 1, 4)) = METADATA_SIZE

-----------------------------------------------------------------------------
(* Properties of the resolver: field range, order of errors and probes *)

\* C19: every field of the parameters ffmpeg() returns is an integer of
\* [0, 2^32 - 1], whatever the accepted request, GPU preference -1 included.
C19_FieldsAreUnsigned32 ==
    (IsResolve /\ last.out.kind = "ok") =>
        \A i \in DOMAIN last.out.opts :
            /\ last.out.opts[i] \in Int
            /\ last.out.opts[i] >= 0
            /\ last.out.opts[i] \div 65536 < 65536

\* C20: a call of ffmpeg() that ends in a ValueError (unknown codec, unknown
\* decoder, invalid preset, invalid tune) has started no hardware probe.
C20_ConfigErrorsBeforeProbing ==
    (IsResolve /\ last.out.kind = "ValueError") =>
        /\ last.out.what \in {"codec", "decoder", "preset", "tune"}
        /\ last.out.probes = <<>>

\* An NVENC codec with a GPU asked for, refused for its preset on a host
\* where the hardware check of the same codec does start a probe.
C20_Witness ==
    /\ IsResolve
    /\ last.out.kind = "ValueError"
    /\ last.out.what = "preset"
    /\ Contains("nvenc", last.req.codec)
    /\ last.req.gpu_id >= 0
    /\ HardwareChecks(last.req.codec, last.req.gpu_id, host).probes # <<>>

-----------------------------------------------------------------------------
(* Properties of the probes *)

\* C21: whatever the outcome of a probe process (answer, non-zero exit,
\* timeout, tool not installed, failure to start), validate and ffmpeg()
\* return normally or with a ValueError of the request: no exception of a
\* probe reaches the caller, and a probe that did not answer counts zero.
C21_ProbeFailureIsAbsence ==
    /\ IsResolve => last.out.kind \in {"ok", "ValueError"}
    /\ IsValidate =>
          /\ last.out.kind = "ok"
          /\ (last.requested >= 0 /\ host.nvidia.run # "ok") =>
                 Val(last.out.gpu_info).nvidia = 0
          /\ (last.requested >= 0 /\ host.intel.run # "ok") =>
                 Val(last.out.gpu_info).intel = 0

\* C22: in one process a probe process is started at most once for each
\* vendor, and every call that asks for a GPU answers from the counts the
\* first probing call obtained, whatever became of the machine since.
C22_ProbesCached ==
    last.op = "process" =>
        /\ last.so_far.spawned.nvidia <= 1
        /\ last.so_far.spawned.intel <= 1
        /\ (last.out.kind = "ok" /\ ~IsNone(last.so_far.first)) =>
               last.out.value =
                   AdjustedId(last.codec, last.requested, Val(last.so_far.first))

-----------------------------------------------------------------------------
(* Properties of the array layer: types, atomicity, the profile *)

\* create_dataset with the filter, from data of a supported type, succeeded.
CreatedFromData ==
    /\ IsCreate
    /\ last.out.kind = "ok"
    /\ last.args.compression = FFMPEG_ID
    /\ ~IsNone(last.args.data)
    /\ Val(last.args.data).dtype \in SupportedDTypes

\* The type a data_type attribute stands for (dtype_map of lines 23 and 207)
TypeOfCode(code) == IF code = 1 THEN "uint16" ELSE IF code = 2 THEN "float32" ELSE "uint8"

C24_CreateIsAtomic ==
    [][(last'.op = "create_dataset" /\ last'.args.compression = FFMPEG_ID) =>
          IF last'.out.kind = "ok"
          THEN LET ds == file'[last'.args.name]
               IN  /\ ds.exists
                   /\ ~IsNone(ds.attrs.bit) =>
                          /\ ~IsNone(ds.attrs.init_min_intensity)
                          /\ ~IsNone(ds.attrs.init_max_intensity)
                          /\ ~IsNone(ds.attrs.data_type)
          ELSE file' = file]_vars

\* C25: the profile is written when the dataset is created and never after:
\* a slice write or a read creates no dataset and leaves the attributes of
\* every dataset as they were, and so does a create_dataset call for the
\* datasets that existed; a read is computed from the stored values and the
\* attributes alone.
C25_ProfileWrittenOnce ==
    [][/\ last'.op \in {"setitem", "getitem"} =>
            /\ \A n \in DatasetNames :
                   /\ file'[n].exists = file[n].exists
                   /\ file[n].exists => file'[n].attrs = file[n].attrs
            /\ last'.op = "getitem" =>
                   /\ file' = file
                   /\ last'.out \in patched_getitem(
                          [n \in DatasetNames |->
                              IF n = last'.name
                              THEN [exists |-> TRUE, dtype |-> file[n].dtype,
                                    shape |-> file[n].shape, attrs |-> file[n].attrs,
                                    values |-> file[n].values]
                              ELSE NoDataset],
                          last'.name)
       /\ last'.op = "create_dataset" =>
            \A n \in DatasetNames : file[n].exists => file'[n].attrs = file[n].attrs
      ]_vars

\* a dataset created from samples up to 255, after a write of samples up to
\* 5000: the maximum of the profile is still 255
C25_Witness ==
    /\ IsSetItem
    /\ last.value.dtype = "uint16"
    /\ AMax(last.value.samples) = Whole(5000)
    /\ file[last.name].attrs.data_type = Some(1)
    /\ file[last.name].attrs.init_max_intensity = Some(Whole(255))

\* C26: every profile in the file has a bit depth of 8, 10 or 12 and a
\* minimum that is at most its maximum, whatever the source type and the
\* samples, the bit mode of the options (3 included) and whether data was
\* given.
C26_ProfileInvariant ==
    \A n \in DatasetNames :
        (file[n].exists /\ ~IsNone(file[n].attrs.bit)) =>
            /\ Val(file[n].attrs.bit) \in {8, 10, 12}
            /\ ~IsNone(file[n].attrs.init_min_intensity)
            /\ ~IsNone(file[n].attrs.init_max_intensity)
            /\ FLeq(Val(file[n].attrs.init_min_intensity),
                    Val(file[n].attrs.init_max_intensity))

\* Every sample lies between the minimum and the maximum of the profile of ds.
SamplesInProfile(samples, ds) ==
    \A i \in 1..Len(samples) :
        /\ FLeq(Val(ds.attrs.init_min_intensity), samples[i])
        /\ FLeq(samples[i], Val(ds.attrs.init_max_intensity))

\* Every sample lies in [0, 2^bit - 1].
WithinDepth(samples, bit) ==
    \A i \in 1..Len(samples) :
        FLeq(Whole(0), samples[i]) /\ FLeq(samples[i], Whole(MaxBitVal(bit)))

\* C27: the samples create_dataset hands to the store for uint16 or float32
\* data, and those a slice assignment hands to it for samples within the
\* profile's range, lie in [0, 2^bit - 1], bit the depth of the profile, for
\* every bit mode, both values of norm and every beta.
C27_QuantizedWithinDepth ==
    /\ (/\ CreatedFromData
        /\ ~IsNone(file[last.args.name].attrs.bit)
        /\ Val(last.args.data).dtype \in {"uint16", "float32"}) =>
            WithinDepth(Val(last.out.handed.data).samples,
                        Val(file[last.args.name].attrs.bit))
    /\ (/\ IsSetItem
        /\ ~IsNone(file[last.name].attrs.data_type)
        /\ last.value.dtype \in SupportedDTypes
        /\ SamplesInProfile(last.value.samples, file[last.name])) =>
            WithinDepth(last.out.written, Val(file[last.name].attrs.bit))

\* The profile of ds as _patched_setitem and _patched_getitem read it
ProfileOf(ds) ==
    [norm |-> ~IsNone(ds.attrs.norm),
     beta |-> IF IsNone(ds.attrs.beta) THEN BetaOne ELSE Val(ds.attrs.beta),
     top |-> MaxBitVal(Val(ds.attrs.bit)),
     lo |-> Val(ds.attrs.init_min_intensity),
     hi |-> Val(ds.attrs.init_max_intensity)]

\* The dataset has a profile that is not the identity one.
Quantizing(ds) ==
    /\ ds.exists
    /\ ~IsNone(ds.attrs.bit)
    /\ ~IsNone(ds.attrs.norm) \/ ~IsNone(ds.attrs.beta)

\* C28: on both forward paths the quantized samples are cast to uint8 for a
\* depth of 8 and to a 16-bit type for 10 and 12, whatever the type of the
\* value written: create_dataset hands the store an array of that type, and a
\* quantized sample of a slice assignment that lies in [0, 2^bit - 1] reaches
\* the store unchanged but for its fraction.
C28_CastToDepthType ==
    /\ (/\ CreatedFromData
        /\ ~IsNone(file[last.args.name].attrs.bit)
        /\ Val(last.args.data).dtype \in {"uint16", "float32"}) =>
            last.out.handed.dtype =
                Some(IF Val(file[last.args.name].attrs.bit) = 8 THEN "uint8" ELSE "uint16")
    /\ (/\ IsSetItem
        /\ Quantizing(file[last.name])
        /\ last.value.dtype \in {"uint16", "float32"}) =>
            LET pr == ProfileOf(file[last.name])
                q(i) == SetForward(last.value.samples[i], pr.norm, pr.beta, pr.top,
                                   pr.lo, pr.hi)
            IN  \A i \in 1..Len(last.value.samples) :
                    (FLeq(Whole(0), q(i)) /\ FLeq(q(i), Whole(pr.top))) =>
                        last.out.written[i] = Whole(FTrunc(q(i)))

\* C29: there is one forward transform.  For uint16 or float32 data that
\* create_dataset quantized, with a minimum below its maximum, the transform
\* of a slice assignment gives every sample of the data, under the profile
\* persisted, the value the transform of the creation gave it (both before
\* the cast); and the read transform undoes the forward one (checked for the
\* exponents 1 and 2, whose inverse the model computes exactly).
C29_SingleForwardTransform ==
    (/\ CreatedFromData
     /\ Quantizing(file[last.args.name])
     /\ Val(last.args.data).dtype \in {"uint16", "float32"}
     /\ FLeq(ProfileOf(file[last.args.name]).lo, ProfileOf(file[last.args.name]).hi)
     /\ ProfileOf(file[last.args.name]).lo # ProfileOf(file[last.args.name]).hi) =>
        LET pr == ProfileOf(file[last.args.name])
            data == Val(last.args.data)
            forward(x) == CreateForward(x, data.dtype, pr.norm, pr.beta, pr.top,
                                        pr.lo, pr.hi)
        IN  \A i \in 1..Len(data.samples) :
                /\ SetForward(data.samples[i], pr.norm, pr.beta, pr.top, pr.lo, pr.hi)
                       = forward(data.samples[i])
                /\ pr.beta.p >= pr.beta.q =>
                       GetInverse(forward(data.samples[i]), pr.norm, pr.beta, pr.top,
                                  pr.lo, pr.hi) = data.samples[i]

\* C30: one options dictionary reused for several create_dataset calls, with
\* different chunk shapes and data types, is never modified, and every
\* dataset's persisted options are the caller's with the dimensions of its
\* own call's chunks (reversed) and the bit mode of its own call (0 for 8-bit
\* data, the caller's otherwise); a quantized dataset's bit attribute is the
\* depth of the caller's bit mode.
C30_ReuseIsSafe ==
    last.op = "reuse" =>
        /\ last.options = last.given
        /\ \A n \in DatasetNames :
            file[n].exists =>
                LET ds == file[n]
                    a == Val(last.calls[n])
                    data == Val(a.data)
                    chunks == IF a.chunks.kind = "tuple" THEN a.chunks.dims ELSE data.shape
                IN  /\ ds.chunks = Some(chunks)
                    /\ Len(ds.opts) = Len(last.given)
                    /\ SubSeq(ds.opts, 3, 5) = Reverse(chunks)
                    /\ ds.opts[6] = IF data.dtype = "uint8" THEN 0 ELSE last.given[6]
                    /\ \A i \in DOMAIN ds.opts \ (3..6) : ds.opts[i] = last.given[i]
                    /\ data.dtype # "uint8" => ds.attrs.bit = Some(BitOf(last.given))

\* 8-bit data was written first with 10-bit options, then 16-bit data with
\* the same options and another chunk shape
C30_Witness ==
    /\ last.op = "reuse"
    /\ last.given[6] = 1
    /\ file["a"].exists /\ file["b"].exists
    /\ last.args.name = "b"
    /\ Val(Val(last.calls["a"]).data).dtype = "uint8"
    /\ Val(last.args.data).dtype = "uint16"
    /\ file["a"].chunks # file["b"].chunks
    /\ file["b"].attrs.bit = Some(10)

====
